---- MODULE Spec2Model ----
(***************************************************************************)
(* Model of the segregated-free-list allocator (mm.c, carried in tsh.c     *)
(* from line 669 on): block codec, free-list table, coalescing, heap       *)
(* growth, malloc / free / realloc / calloc and the heap checker.          *)
(*                                                                         *)
(* Memory is a sparse map from byte addresses (multiples of 8) to 64-bit   *)
(* words.  A size_t / word_t value x is represented by the integer in      *)
(* (-2^30, 2^30) congruent to x modulo 2^64, so 2^64 - k is written -k;     *)
(* addition and subtraction are then exact modulo 2^64, and the unsigned   *)
(* comparisons are ULt / ULe / UGe below.                                  *)
(***************************************************************************)
EXTENDS Integers, Sequences, FiniteSets, Bags, TLC

VARIABLES mem,        \* heap words that have been written: address -> word
          fresh,      \* content of heap words that were never written
          brk,        \* bytes obtained from mem_sbrk so far
          heap_start, \* address of the first block header, NULL before mm_init
          seg_list,   \* bucket heads, 0 .. MAX_SEG_LIST_LENGTH-1 -> address
          status,     \* "ok", or "hung" / "fault" when a call never returned
          live,       \* bag of [ptr, n]: results the caller holds, with their request
          nwrites,    \* stores the caller has made into its payloads
          nops,       \* calls made so far
          last,       \* the call that produced this state and its result
          sh,         \* the shell: masks, pending signals, jobs, children
          csim        \* the cache simulator: geometry, lines, statistics

heap_vars == <<mem, fresh, brk, heap_start, seg_list, status, live, nwrites, nops, last>>
vars == <<heap_vars, sh, csim>>

(* ------------------------------ bounds --------------------------------- *)
MaxLive == 3        \* live pointers the caller holds at once
MaxHeap == 8300     \* bytes mem_sbrk can hand out before it fails
MaxWrites == 1      \* stores the caller makes into payloads it holds
MaxOps == 4         \* calls in one run of Spec (the whole interface)
MaxHeapOps == 8     \* calls in one run of SpecHeap (malloc and free only)
MaxWideOps == 5     \* calls in one run of SpecWide (requests that wrap)
MaxEdgeOps == 4     \* calls in one run of SpecEdge (null and zero arguments)
MaxListLive == 6    \* live pointers of one size held at once in SpecList
MaxListOps == 10    \* calls in one run of SpecList (blocks of one size)
MaxFitLive == 4     \* live pointers held at once in SpecFit
MaxCmds == 4         \* command lines the shell evaluates in one run
MaxForks == 2        \* children the shell forks in one run
MaxKeys == 1         \* ctrl-c / ctrl-z typed at the terminal in one run
MaxAccesses == 4     \* lines of the trace file
MaxFitOps == 7      \* calls in one run of SpecFit (sizes that share buckets)

MallocSizes == {1, 24, 4090}           \* malloc requests
PackSizes == {0, 16, 32, 4096, -16, 8, 17, 24, -1}   \* sizes handed to pack
ClassSizes == {0, 16, 17, 32, 33, 4096, 32768, 32769, 65536, 65537, 131072, 131088,
               2 ^ 30 - 16, -(2 ^ 30 - 16), -16, -1}   \* sizes handed to find_seg_list_class
FreshVals == {0, 49}                   \* what unwritten memory may hold

(* ----------------------------- constants ------------------------------- *)
NULL == 0
MAX_SEG_LIST_LENGTH == 14
wsize == 8
dsize == 2 * wsize
min_block_size == dsize
pre_alloc_mark == 2
pre_min_mark == 4
chunksize == 4096
alloc_mask == 1
mem_start_brk == 16   \* address of the first byte mem_sbrk hands out

(* ------------------------ unsigned arithmetic -------------------------- *)
ULt(a, b) == IF (a < 0) = (b < 0) THEN a < b ELSE b < 0
ULe(a, b) == a = b \/ ULt(a, b)
UGe(a, b) == ULe(b, a)
UGt(a, b) == ULt(b, a)

BitOr(word, mask) == IF (word \div mask) % 2 = 1 THEN word ELSE word + mask
BitTest(word, mask) == (word \div mask) % 2 = 1

max(x, y) == IF UGt(x, y) THEN x ELSE y

round_up(size, n) == n * ((size + (n - 1)) \div n)

(* Statements in sequence: F applied to the value x has once computed. *)
Then(x, F(_)) == CHOOSE r \in {F(v) : v \in {x}} : TRUE

(* A size_t in full: its 8 bytes, least significant first. The sizes the   *)
(* allocator adds and compares are kept as residues x, -2^30 < x < 2^30,   *)
(* where -k stands for 2^64 - k; calloc's product and quotient need all    *)
(* 64 bits.                                                                *)
Bytes64 == 1 .. 8

Huge == 2 ^ 30 - 16   \* a size no heap of the model can hold

Wide(x) ==
    LET low(v) == [i \in Bytes64 |->
                      IF i <= 4 THEN (v \div (256 ^ (i - 1))) % 256 ELSE 0]
    IN  IF x >= 0 THEN low(x) ELSE [i \in Bytes64 |-> 255 - low(-x - 1)[i]]

(* Back to a residue.  A size between 2^30 and 2^64 - 2^30 exceeds every  *)
(* block and every growth mem_sbrk can grant; it is kept as Huge when     *)
(* its adjusted size stays within 2^63 (size <= 2^63 - 8) and as -Huge    *)
(* when it does not, the two sides of find_seg_list_class's last          *)
(* threshold.                                                             *)
Narrow(w) ==
    LET val(v) == v[1] + 256 * v[2] + 65536 * v[3] + 16777216 * v[4]
        inv == [i \in Bytes64 |-> 255 - w[i]]
    IN  IF (\A i \in 5 .. 8 : w[i] = 0) /\ w[4] < 64 THEN val(w)
        ELSE IF (\A i \in 5 .. 8 : inv[i] = 0) /\ inv[4] < 64 THEN -val(inv) - 1
        ELSE IF w[8] >= 128
                \/ (w[8] = 127 /\ (\A i \in 2 .. 7 : w[i] = 255) /\ w[1] > 248)
        THEN -Huge
        ELSE Huge

(* Column k of the schoolbook product of two byte strings. *)
Column(a, b, k) ==
    LET S[i \in 0 .. 8] ==
            IF i = 0 THEN 0
            ELSE S[i - 1] + (IF k + 1 - i \in Bytes64 THEN a[i] * b[k + 1 - i] ELSE 0)
    IN  S[8]

Product(a, b) ==   \* all 16 bytes of a * b
    LET C[k \in 0 .. 16] == IF k = 0 THEN 0 ELSE (Column(a, b, k) + C[k - 1]) \div 256
    IN  [k \in 1 .. 16 |-> (Column(a, b, k) + C[k - 1]) % 256]

Mul64(a, b) == [k \in Bytes64 |-> Product(a, b)[k]]   \* a * b on size_t

Ge64(x, y) ==
    x = y \/ \E i \in Bytes64 : x[i] > y[i] /\ \A j \in i + 1 .. 8 : x[j] = y[j]

Sub64(x, y) ==     \* x - y on size_t
    LET B[i \in 0 .. 8] == IF i = 0 THEN 0
                           ELSE IF x[i] - y[i] - B[i - 1] < 0 THEN 1 ELSE 0
    IN  [i \in Bytes64 |-> (x[i] - y[i] - B[i - 1]) % 256]

Shl1(r, bit) ==    \* 2 * r + bit on size_t
    [i \in Bytes64 |-> (2 * r[i] + (IF i = 1 THEN bit ELSE r[i - 1] \div 128)) % 256]

Bit64(a, n) == (a[n \div 8 + 1] \div (2 ^ (n % 8))) % 2

RECURSIVE div_loop(_, _, _, _, _)
div_loop(a, b, n, r, q) ==   \* long division, bit n of a coming down
    IF n < 0 THEN q
    ELSE CHOOSE res \in {div_loop(a, b, n - 1, r1, q1) :
             r1 \in {IF r[8] >= 128 \/ Ge64(Shl1(r, Bit64(a, n)), b)
                     THEN Sub64(Shl1(r, Bit64(a, n)), b)
                     ELSE Shl1(r, Bit64(a, n))},
             q1 \in {IF r[8] >= 128 \/ Ge64(Shl1(r, Bit64(a, n)), b)
                     THEN [q EXCEPT ![n \div 8 + 1] = @ + 2 ^ (n % 8)]
                     ELSE q}} : TRUE

Div64(a, b) ==     \* a / b on size_t, b # 0
    Then(a, LAMBDA a1 : Then(b, LAMBDA b1 :
         Then(Wide(0), LAMBDA z : div_loop(a1, b1, 63, z, z))))

(* ----------------------------- block codec ----------------------------- *)
pack_shares_a_bit(size, pre_min, pre_alloc, alloc) ==   \* pre_min on pre_alloc's bit
    LET w1 == IF alloc THEN BitOr(size, alloc_mask) ELSE size
        w2 == IF pre_alloc THEN BitOr(w1, pre_alloc_mark) ELSE w1
    IN  IF pre_min THEN BitOr(w2, pre_alloc_mark) ELSE w2

pack(size, pre_min, pre_alloc, alloc) ==
    LET w1 == IF alloc THEN BitOr(size, alloc_mask) ELSE size
        w2 == IF pre_alloc THEN BitOr(w1, pre_alloc_mark) ELSE w1
    IN  IF pre_min THEN BitOr(w2, pre_min_mark) ELSE w2

extract_size(word) == word - (word % 16)
extract_alloc(word) == BitTest(word, alloc_mask)

(* ------------------------------- memory -------------------------------- *)
mem_heap_lo(s) == mem_start_brk
mem_heap_hi(s) == mem_start_brk + s.brk - 1

InHeap(s, a) == a % 8 = 0 /\ a >= mem_start_brk /\ a + 8 <= mem_start_brk + s.brk

Rd(s, a) == IF a \in DOMAIN s.mem THEN s.mem[a] ELSE fresh

Wr(s, a, v) ==
    IF s.st # "ok" THEN s
    ELSE IF ~InHeap(s, a) THEN [s EXCEPT !.st = "fault"]
    ELSE [s EXCEPT !.mem = [x \in DOMAIN s.mem \cup {a} |->
                               IF x = a THEN v ELSE s.mem[x]]]

SetSeg(s, class, v) == IF s.st # "ok" THEN s ELSE [s EXCEPT !.seg[class] = v]

(* The record of one call: each inner operation that ran, in order of     *)
(* completion, with its argument, its result and the heap it was given    *)
(* and the heap it left.                                                  *)
Noted(s, s9, op, block, size, ret) ==
    LET View(x) == [mem |-> x.mem, brk |-> x.brk, hs |-> x.hs, seg |-> x.seg, st |-> x.st]
    IN  [s9 EXCEPT !.ev = Append(@, [op |-> op, block |-> block, size |-> size,
                                     ret |-> ret, pre |-> View(s), post |-> View(s9)])]

HUNG == -1    \* a loop that never ends
FAULT == -2   \* a dereference outside the heap

header(s, block) == Rd(s, block)
next_of(s, block) == Rd(s, block + 8)   \* block->data.free_list.next
prev_of(s, block) == Rd(s, block + 16)  \* block->data.free_list.prev

get_size(s, block) == extract_size(header(s, block))
payload_to_header(bp) == bp - 8
header_to_payload(block) == block + 8
header_to_footer(s, block) == block + 8 + get_size(s, block) - dsize
footer_to_header(s, footer) == footer + wsize - extract_size(Rd(s, footer))
get_payload_size(s, block) == get_size(s, block) - wsize
get_alloc(s, block) == extract_alloc(header(s, block))
find_next(s, block) == block + get_size(s, block)
find_prev_footer(block) == block - 8
find_prev(s, block) == footer_to_header(s, find_prev_footer(block))
get_pre_alloc(s, block) == BitTest(header(s, block), pre_alloc_mark)
get_pre_min(s, block) == BitTest(header(s, block), pre_min_mark)
find_min_prev(block) == block - dsize

write_epilogue(s, block) == Wr(s, block, pack(0, FALSE, FALSE, TRUE))

(* size > (min_block_size << c) for a shift count below 64.  Up to 25 the *)
(* threshold is below 2^30.  From 26 to 59 it is 2^(c+4), between 2^30    *)
(* and 2^63: above every size written x >= 0 and below every size written *)
(* -k.  From 60 to 63 the bit is shifted out of the word and the          *)
(* threshold is 0.                                                        *)
AboveShifted(size, c) ==
    IF c <= 25 THEN UGt(size, min_block_size * (2 ^ c))
    ELSE IF c <= 59 THEN size < 0
    ELSE size # 0

(* A shift by 64 or more is undefined: the processor takes the count      *)
(* modulo 64 (x86-64 shl) or shifts every bit out.                        *)
Above(size, c) ==
    IF c < 64 THEN {AboveShifted(size, c)}
    ELSE {AboveShifted(size, c % 64), size # 0}

(* The count at which "while (size > (min_block_size << c)) c++" stops,  *)
(* started at c: the least count whose test can fail, or HUNG when the    *)
(* shift counts go full circle past 64 with the test still true.          *)
class_loop(size, c) ==
    IF \A k \in c .. 127 : Above(size, k) = {TRUE} THEN HUNG
    ELSE CHOOSE k \in c .. 127 :
             /\ Above(size, k) # {TRUE}
             /\ \A j \in c .. k - 1 : Above(size, j) = {TRUE}

find_seg_list_class(size) ==
    Then(size, LAMBDA sz :
         IF ULe(sz, min_block_size) THEN 0
         ELSE Then(class_loop(sz, 1), LAMBDA c :
                   IF c = HUNG THEN HUNG
                   ELSE IF c < MAX_SEG_LIST_LENGTH THEN c
                   ELSE MAX_SEG_LIST_LENGTH - 1))

(* --------------------------- free-list table --------------------------- *)
RECURSIVE chain(_, _, _)
chain(s, b, seen) ==      \* the blocks met from b along the next links
    IF b = NULL \/ b \in seen \/ ~InHeap(s, b) THEN <<>>
    ELSE <<b>> \o chain(s, next_of(s, b), seen \cup {b})

RECURSIVE chain_end(_, _, _)
chain_end(s, b, seen) ==  \* NULL, HUNG (a cycle) or FAULT (a wild link)
    IF b = NULL THEN NULL
    ELSE IF ~InHeap(s, b) THEN FAULT
    ELSE IF b \in seen THEN HUNG
    ELSE chain_end(s, next_of(s, b), seen \cup {b})

Linked(s, block) ==
    \E c \in 0 .. MAX_SEG_LIST_LENGTH - 1 :
        \E l \in {chain(s, s.seg[c], {})} : \E i \in DOMAIN l : l[i] = block

write_block(s, block, size, pre_min, pre_alloc, alloc, write_footer) ==
    Then(IF s.st = "ok" /\ InHeap(s, block) /\ get_size(s, block) # size
            /\ Linked(s, block)
         THEN [s EXCEPT !.lr = TRUE] ELSE s, LAMBDA s0 :
    Then(Wr(s0, block, pack(size, pre_min, pre_alloc, alloc)), LAMBDA s1 :
         IF write_footer /\ size # min_block_size
         THEN Wr(s1, header_to_footer(s1, block), pack(size, pre_min, pre_alloc, alloc))
         ELSE s1))

set_next_block_pre_alloc_pre_min(s, block, next_pre_min, next_pre_alloc) ==
    LET block_next == find_next(s, block)
    IN  write_block(s, block_next, get_size(s, block_next), next_pre_min,
                    next_pre_alloc, get_alloc(s, block_next), FALSE)

insert_block_LIFO(s, block) ==
    IF s.st # "ok" THEN s
    ELSE
    Then(get_size(s, block), LAMBDA size :
    Then(find_seg_list_class(size), LAMBDA class :
         IF class = HUNG THEN [s EXCEPT !.st = "hung"]
         ELSE
         Then(s.seg[class], LAMBDA first_block :
         Then(IF size # min_block_size /\ first_block # NULL
              THEN Wr(s, first_block + 16, block) ELSE s, LAMBDA s1 :
         Then(Wr(s1, block + 8, first_block), LAMBDA s2 :
         Then(IF size # min_block_size THEN Wr(s2, block + 16, NULL) ELSE s2, LAMBDA s3 :
         Then(SetSeg(s3, class, block), LAMBDA s9 :
              Noted(s, s9, "insert_block_LIFO", block, size, NULL))))))))

RECURSIVE min_scan(_, _, _, _)
min_scan(s, temp, block, seen) ==   \* the scan of lines 1305-1311
    IF temp = NULL THEN NULL
    ELSE IF ~InHeap(s, temp) THEN FAULT
    ELSE IF temp \in seen THEN HUNG
    ELSE IF next_of(s, temp) = block THEN temp
    ELSE min_scan(s, next_of(s, temp), block, seen \cup {temp})

fix_free_list_resets_head(s, block) ==   \* line 1280's test of prev dropped
    IF s.st # "ok" THEN s
    ELSE
    Then(get_size(s, block), LAMBDA size :
    Then(find_seg_list_class(size), LAMBDA class :
    Then(prev_of(s, block), LAMBDA prev :
    Then(next_of(s, block), LAMBDA nextv :
    Then(IF class = HUNG THEN [s EXCEPT !.st = "hung"]
         ELSE IF size # min_block_size THEN
             Then(IF nextv # NULL THEN Wr(s, nextv + 16, prev) ELSE s, LAMBDA a :
             Then(IF prev # NULL THEN Wr(a, prev + 8, nextv) ELSE a, LAMBDA s1 :
             Then(SetSeg(s1, class, nextv), LAMBDA s2 :
             Then(Wr(s2, block + 8, NULL), LAMBDA s3 : Wr(s3, block + 16, NULL)))))
         ELSE
             Then(min_scan(s, s.seg[class], block, {}), LAMBDA min_prev :
                  IF min_prev = HUNG THEN [s EXCEPT !.st = "hung"]
                  ELSE IF min_prev = FAULT THEN [s EXCEPT !.st = "fault"]
                  ELSE IF min_prev # NULL
                  THEN SetSeg(Wr(s, min_prev + 8, nextv), class, nextv)
                  ELSE SetSeg(s, class, nextv)), LAMBDA s9 :
         Noted(s, s9, "fix_free_list", block, size, NULL))))))

fix_free_list(s, block) ==
    IF s.st # "ok" THEN s
    ELSE
    Then(get_size(s, block), LAMBDA size :
    Then(find_seg_list_class(size), LAMBDA class :
    Then(prev_of(s, block), LAMBDA prev :
    Then(next_of(s, block), LAMBDA nextv :
    Then(IF class = HUNG THEN [s EXCEPT !.st = "hung"]
         ELSE IF size # min_block_size THEN
             Then(IF prev = NULL
                  THEN Then(IF nextv # NULL THEN Wr(s, nextv + 16, NULL) ELSE s,
                            LAMBDA a : SetSeg(a, class, nextv))
                  ELSE Then(IF nextv # NULL THEN Wr(s, nextv + 16, prev) ELSE s,
                            LAMBDA a : Wr(a, prev + 8, nextv)), LAMBDA s1 :
             Then(Wr(s1, block + 8, NULL), LAMBDA s2 : Wr(s2, block + 16, NULL)))
         ELSE
             Then(min_scan(s, s.seg[class], block, {}), LAMBDA min_prev :
                  IF min_prev = HUNG THEN [s EXCEPT !.st = "hung"]
                  ELSE IF min_prev = FAULT THEN [s EXCEPT !.st = "fault"]
                  ELSE IF min_prev # NULL THEN Wr(s, min_prev + 8, nextv)
                  ELSE SetSeg(s, class, nextv)), LAMBDA s9 :
         Noted(s, s9, "fix_free_list", block, size, NULL))))))

(* --------------------------- coalescing engine ------------------------- *)
handle_case_1(s, block, size) ==
    IF size = min_block_size
    THEN set_next_block_pre_alloc_pre_min(s, block, TRUE, FALSE)
    ELSE IF UGt(size, min_block_size)
    THEN set_next_block_pre_alloc_pre_min(s, block, FALSE, FALSE)
    ELSE s

handle_case_2(s, block, next_block, size, pre_min, pre_flag) ==
    Then(fix_free_list(s, next_block), LAMBDA s1 :
    Then(write_block(s1, block, size + get_size(s1, next_block), pre_min, pre_flag,
                     FALSE, TRUE), LAMBDA s2 :
         set_next_block_pre_alloc_pre_min(s2, block, FALSE, FALSE)))

handle_case_3(s, pre_block, size, pre_min) ==
    Then(fix_free_list(s, pre_block), LAMBDA s1 :
    Then(write_block(s1, pre_block, size + get_size(s1, pre_block), pre_min, TRUE,
                     FALSE, TRUE), LAMBDA s2 :
         set_next_block_pre_alloc_pre_min(s2, pre_block, FALSE, FALSE)))

handle_case_4(s, pre_block, next_block, size, pre_min) ==
    Then(fix_free_list(s, pre_block), LAMBDA s1 :
    Then(fix_free_list(s1, next_block), LAMBDA s2 :
    Then(write_block(s2, pre_block,
                     size + get_size(s2, pre_block) + get_size(s2, next_block),
                     pre_min, TRUE, FALSE, TRUE), LAMBDA s3 :
         set_next_block_pre_alloc_pre_min(s3, pre_block, FALSE, FALSE))))

coalesce_block(s, block) ==    \* [s |-> state after, block |-> returned block]
    LET pre_flag == get_pre_alloc(s, block)
        next_flag == get_alloc(s, find_next(s, block))
        size == get_size(s, block)
        next_block == find_next(s, block)
        pre_block == IF pre_flag THEN NULL
                     ELSE IF get_pre_min(s, block) THEN find_min_prev(block)
                     ELSE find_prev(s, block)
        block1 == IF pre_flag THEN block ELSE pre_block
    IN  Then(IF pre_flag /\ next_flag THEN handle_case_1(s, block, size)
             ELSE IF pre_flag /\ ~next_flag
             THEN handle_case_2(s, block, next_block, size,
                                get_pre_min(s, block), pre_flag)
             ELSE IF ~pre_flag /\ next_flag
             THEN handle_case_3(s, pre_block, size, get_pre_min(s, pre_block))
             ELSE handle_case_4(s, pre_block, next_block, size,
                                get_pre_min(s, pre_block)), LAMBDA s1 :
        Then(insert_block_LIFO(s1, block1), LAMBDA s9 :
             [s |-> Noted(s, s9, "coalesce_block", block, size, block1),
              block |-> block1]))

(* -------------------------- heap layout manager ------------------------ *)
mem_sbrk(s, incr) ==           \* [s |-> state after, bp |-> old break or -1]
    IF incr < 0 \/ s.brk + incr > MaxHeap
    THEN [s |-> [s EXCEPT !.nsbrk = @ + 1, !.sbrkfail = TRUE], bp |-> -1]
    ELSE [s |-> [s EXCEPT !.nsbrk = @ + 1, !.brk = @ + incr],
          bp |-> mem_start_brk + s.brk]

extend_heap(s, size) ==        \* [s |-> state after, block |-> block or NULL]
    Then(mem_sbrk(s, round_up(size, dsize)), LAMBDA r :
         IF r.bp = -1
         THEN [s |-> Noted(s, r.s, "extend_heap", NULL, size, NULL), block |-> NULL]
         ELSE LET block == payload_to_header(r.bp)
              IN  Then(write_block(r.s, block, round_up(size, dsize),
                                   get_pre_min(r.s, block), get_pre_alloc(r.s, block),
                                   FALSE, TRUE), LAMBDA s1 :
                  Then(write_epilogue(s1, find_next(s1, block)), LAMBDA s2 :
                  Then(coalesce_block(s2, block), LAMBDA c :
                       [s |-> Noted(s, c.s, "extend_heap", block, size, c.block),
                        block |-> c.block]))))

(* --------------------------- allocation engine ------------------------- *)
split_block(s, block, asize) ==
    LET block_size == get_size(s, block)
    IN  Then(fix_free_list(s, block), LAMBDA s1 :
        Then(IF UGe(block_size - asize, min_block_size) THEN
                 Then(write_block(s1, block, asize, get_pre_min(s1, block), TRUE, TRUE,
                                  FALSE), LAMBDA s2 :
                 Then(write_block(s2, find_next(s2, block), block_size - asize,
                                  asize = min_block_size, TRUE, FALSE, TRUE), LAMBDA s3 :
                 Then(set_next_block_pre_alloc_pre_min(s3, find_next(s2, block),
                                                       block_size - asize = min_block_size,
                                                       FALSE), LAMBDA s4 :
                      coalesce_block(s4, find_next(s2, block)).s)))
             ELSE
                 Then(write_block(s1, block, block_size, get_pre_min(s1, block), TRUE,
                                  TRUE, FALSE), LAMBDA s2 :
                      set_next_block_pre_alloc_pre_min(
                          s2, block, get_pre_min(s2, find_next(s2, block)), TRUE)),
             LAMBDA s9 : Noted(s, s9, "split_block", block, asize, NULL)))

RECURSIVE fit_scan(_, _, _, _, _)
fit_scan(s, asize, class, class_root, seen) ==
    IF class_root = NULL THEN
        IF class + 1 < MAX_SEG_LIST_LENGTH
        THEN fit_scan(s, asize, class + 1, s.seg[class + 1], {})
        ELSE NULL
    ELSE IF ~InHeap(s, class_root) THEN FAULT
    ELSE IF class_root \in seen THEN HUNG
    ELSE IF UGe(get_size(s, class_root), asize) THEN class_root
    ELSE fit_scan(s, asize, class, next_of(s, class_root), seen \cup {class_root})

find_fit_skips_exact(s, asize) ==   \* line 1582 with > for >=
    Then(find_seg_list_class(asize), LAMBDA class :
    Then(IF class = HUNG THEN HUNG ELSE fit_scan(s, asize + 1, class, s.seg[class], {}),
         LAMBDA fit :
         [s |-> Noted(s, s, "find_fit", NULL, asize, fit), block |-> fit]))

find_fit(s, asize) ==          \* [s |-> s, block |-> a block, NULL, HUNG or FAULT]
    Then(find_seg_list_class(asize), LAMBDA class :
    Then(IF class = HUNG THEN HUNG ELSE fit_scan(s, asize, class, s.seg[class], {}),
         LAMBDA fit :
         [s |-> Noted(s, s, "find_fit", NULL, asize, fit), block |-> fit]))

mm_init_shifted_a_word(s) ==   \* a pad word before the prologue
    Then(mem_sbrk(s, 3 * wsize), LAMBDA r :
         IF r.bp = -1 THEN [s |-> r.s, ok |-> FALSE]
         ELSE Then(Wr(r.s, r.bp + 8, pack(0, FALSE, TRUE, TRUE)), LAMBDA s1 :
              Then(Wr(s1, r.bp + 16, pack(0, FALSE, TRUE, TRUE)), LAMBDA s2 :
              Then([s2 EXCEPT !.hs = r.bp + 16,
                              !.seg = [c \in 0 .. MAX_SEG_LIST_LENGTH - 1 |-> NULL]],
                   LAMBDA s3 :
              Then(extend_heap(s3, chunksize), LAMBDA e :
                   [s |-> e.s, ok |-> e.block # NULL])))))

mm_init(s) ==                  \* [s |-> state after, ok |-> the result]
    Then(mem_sbrk(s, 2 * wsize), LAMBDA r :
         IF r.bp = -1 THEN [s |-> r.s, ok |-> FALSE]
         ELSE Then(Wr(r.s, r.bp, pack(0, FALSE, TRUE, TRUE)), LAMBDA s1 :
              Then(Wr(s1, r.bp + 8, pack(0, FALSE, TRUE, TRUE)), LAMBDA s2 :
              Then([s2 EXCEPT !.hs = r.bp + 8,
                              !.seg = [c \in 0 .. MAX_SEG_LIST_LENGTH - 1 |-> NULL]],
                   LAMBDA s3 :
              Then(extend_heap(s3, chunksize), LAMBDA e :
                   [s |-> e.s, ok |-> e.block # NULL])))))

malloc_body_serves_zero(s, size) ==   \* a request of 0 bytes is served
    LET asize == round_up(size + wsize, dsize)
    IN  Then(find_fit(s, asize), LAMBDA f :
             IF f.block = HUNG THEN [s |-> [f.s EXCEPT !.st = "hung"], bp |-> NULL]
             ELSE IF f.block = FAULT THEN [s |-> [f.s EXCEPT !.st = "fault"], bp |-> NULL]
             ELSE Then(IF f.block = NULL THEN extend_heap(f.s, max(asize, chunksize))
                       ELSE f, LAMBDA e :
                  IF e.block = NULL THEN [s |-> e.s, bp |-> NULL]
                  ELSE [s |-> split_block(e.s, e.block, asize),
                        bp |-> header_to_payload(e.block)]))

malloc_body_retries(s, size) ==   \* a failed growth is asked for again
    LET asize == round_up(size + wsize, dsize)
    IN  IF size = 0 THEN [s |-> s, bp |-> NULL]
        ELSE Then(find_fit(s, asize), LAMBDA f :
             IF f.block = HUNG THEN [s |-> [f.s EXCEPT !.st = "hung"], bp |-> NULL]
             ELSE IF f.block = FAULT THEN [s |-> [f.s EXCEPT !.st = "fault"], bp |-> NULL]
             ELSE Then(IF f.block # NULL THEN f
                       ELSE Then(extend_heap(f.s, max(asize, chunksize)), LAMBDA e1 :
                                 IF e1.block # NULL THEN e1
                                 ELSE extend_heap(e1.s, asize)), LAMBDA e :
                  IF e.block = NULL THEN [s |-> e.s, bp |-> NULL]
                  ELSE [s |-> split_block(e.s, e.block, asize),
                        bp |-> header_to_payload(e.block)]))

malloc_body(s, size) ==        \* lines 1836-1867, on an initialized heap
    LET asize == round_up(size + wsize, dsize)
    IN  IF size = 0 THEN [s |-> s, bp |-> NULL]
        ELSE Then(find_fit(s, asize), LAMBDA f :
             IF f.block = HUNG THEN [s |-> [f.s EXCEPT !.st = "hung"], bp |-> NULL]
             ELSE IF f.block = FAULT THEN [s |-> [f.s EXCEPT !.st = "fault"], bp |-> NULL]
             ELSE Then(IF f.block = NULL THEN extend_heap(f.s, max(asize, chunksize))
                       ELSE f, LAMBDA e :
                  IF e.block = NULL THEN [s |-> e.s, bp |-> NULL]
                  ELSE [s |-> split_block(e.s, e.block, asize),
                        bp |-> header_to_payload(e.block)]))

malloc(s, size) ==             \* [s |-> state after, bp |-> the result]
    IF s.hs = NULL
    THEN Then(mm_init(s), LAMBDA i :
              IF ~i.ok THEN [s |-> i.s, bp |-> NULL] ELSE malloc_body(i.s, size))
    ELSE malloc_body(s, size)

free_null_unchecked(s, bp) ==   \* no test for NULL
    LET block == payload_to_header(bp)
        size == get_size(s, block)
    IN  Then(write_block(s, block, size, get_pre_min(s, block),
                         get_pre_alloc(s, block), FALSE, size # min_block_size),
             LAMBDA s1 :
        Then(IF size # min_block_size
             THEN set_next_block_pre_alloc_pre_min(s1, block, FALSE, FALSE)
             ELSE set_next_block_pre_alloc_pre_min(s1, block, TRUE, FALSE),
             LAMBDA s2 : coalesce_block(s2, block).s))

free(s, bp) ==
    IF bp = NULL THEN s
    ELSE LET block == payload_to_header(bp)
             size == get_size(s, block)
         IN  Then(write_block(s, block, size, get_pre_min(s, block),
                              get_pre_alloc(s, block), FALSE, size # min_block_size),
                  LAMBDA s1 :
             Then(IF size # min_block_size
                  THEN set_next_block_pre_alloc_pre_min(s1, block, FALSE, FALSE)
                  ELSE set_next_block_pre_alloc_pre_min(s1, block, TRUE, FALSE),
                  LAMBDA s2 : coalesce_block(s2, block).s))

(* The low k bytes of a word (little-endian); words stay below 2^31. *)
LowBytes(w, k) == IF k >= 4 THEN w ELSE w % (256 ^ k)

WordsOf(n) == (n + 7) \div 8   \* words touched by the first n bytes

memcpy(s, dst, src, n) ==
    IF s.st # "ok" THEN s
    ELSE IF n < 0 \/ ~InHeap(s, dst) \/ ~InHeap(s, src)
            \/ (n > 0 /\ ~InHeap(s, dst + 8 * (WordsOf(n) - 1)))
            \/ (n > 0 /\ ~InHeap(s, src + 8 * (WordsOf(n) - 1)))
    THEN [s EXCEPT !.st = "fault"]
    ELSE LET D == {dst + 8 * k : k \in 0 .. WordsOf(n) - 1}
             new(a) == LET k == (a - dst) \div 8
                           w == Rd(s, src + 8 * k)
                           r == n - 8 * k
                       IN  IF r >= 8 THEN w
                           ELSE LowBytes(w, r) + (Rd(s, a) - LowBytes(Rd(s, a), r))
         IN  [s EXCEPT !.mem = [a \in DOMAIN s.mem \cup D |->
                                   IF a \in D THEN new(a) ELSE s.mem[a]]]

memset0(s, dst, n) ==          \* memset(dst, 0, n)
    IF s.st # "ok" THEN s
    ELSE IF n < 0 \/ ~InHeap(s, dst) \/ (n > 0 /\ ~InHeap(s, dst + 8 * (WordsOf(n) - 1)))
    THEN [s EXCEPT !.st = "fault"]
    ELSE LET D == {dst + 8 * k : k \in 0 .. WordsOf(n) - 1}
             new(a) == LET r == n - (a - dst)
                       IN  IF r >= 8 THEN 0 ELSE Rd(s, a) - LowBytes(Rd(s, a), r)
         IN  [s EXCEPT !.mem = [a \in DOMAIN s.mem \cup D |->
                                   IF a \in D THEN new(a) ELSE s.mem[a]]]

realloc_keeps_on_zero(s, ptr, size) ==   \* realloc(p, 0) does not release p
    IF size = 0 THEN [s |-> s, bp |-> NULL]
    ELSE IF ptr = NULL THEN malloc(s, size)
    ELSE Then(malloc(s, size), LAMBDA m :
         IF m.bp = NULL THEN [s |-> m.s, bp |-> NULL]
         ELSE LET old == get_payload_size(m.s, payload_to_header(ptr))
                  copysize == IF ULt(size, old) THEN size ELSE old
              IN  Then(memcpy(m.s, m.bp, ptr, copysize), LAMBDA s1 :
                       [s |-> free(s1, ptr), bp |-> m.bp]))

realloc_frees_on_failure(s, ptr, size) ==   \* the old block is released when malloc fails
    IF size = 0 THEN [s |-> free(s, ptr), bp |-> NULL]
    ELSE IF ptr = NULL THEN malloc(s, size)
    ELSE Then(malloc(s, size), LAMBDA m :
         IF m.bp = NULL THEN [s |-> free(m.s, ptr), bp |-> NULL]
         ELSE LET old == get_payload_size(m.s, payload_to_header(ptr))
                  copysize == IF ULt(size, old) THEN size ELSE old
              IN  Then(memcpy(m.s, m.bp, ptr, copysize), LAMBDA s1 :
                       [s |-> free(s1, ptr), bp |-> m.bp]))

realloc(s, ptr, size) ==       \* [s |-> state after, bp |-> the result]
    IF size = 0 THEN [s |-> free(s, ptr), bp |-> NULL]
    ELSE IF ptr = NULL THEN malloc(s, size)
    ELSE Then(malloc(s, size), LAMBDA m :
         IF m.bp = NULL THEN [s |-> m.s, bp |-> NULL]
         ELSE LET old == get_payload_size(m.s, payload_to_header(ptr))
                  copysize == IF ULt(size, old) THEN size ELSE old
              IN  Then(memcpy(m.s, m.bp, ptr, copysize), LAMBDA s1 :
                       [s |-> free(s1, ptr), bp |-> m.bp]))

calloc_trusts_product(s, elements, size) ==   \* no division round trip
    LET asize == Mul64(elements, size)
    IN  IF elements = Wide(0) THEN [s |-> s, bp |-> NULL]
        ELSE Then(malloc(s, Narrow(asize)), LAMBDA m :
             IF m.bp = NULL THEN [s |-> m.s, bp |-> NULL]
             ELSE [s |-> memset0(m.s, m.bp, Narrow(asize)), bp |-> m.bp])

calloc_skips_memset(s, elements, size) ==   \* the block is returned as found
    LET asize == Mul64(elements, size)
    IN  IF elements = Wide(0) THEN [s |-> s, bp |-> NULL]
        ELSE IF Div64(asize, elements) # size THEN [s |-> s, bp |-> NULL]
        ELSE malloc(s, Narrow(asize))

calloc(s, elements, size) ==   \* [s |-> state after, bp |-> the result]
    LET asize == Mul64(elements, size)
    IN  IF elements = Wide(0) THEN [s |-> s, bp |-> NULL]
        ELSE IF Div64(asize, elements) # size THEN [s |-> s, bp |-> NULL]
        ELSE Then(malloc(s, Narrow(asize)), LAMBDA m :
             IF m.bp = NULL THEN [s |-> m.s, bp |-> NULL]
             ELSE [s |-> memset0(m.s, m.bp, Narrow(asize)), bp |-> m.bp])

(* ------------------------- heap consistency checker -------------------- *)
RECURSIVE walk(_, _, _)
walk(s, block, fuel) ==     \* the blocks met by "for (; get_size(block) > 0; ...)"
    IF fuel = 0 \/ ~InHeap(s, block) \/ ~UGt(get_size(s, block), 0) THEN <<>>
    ELSE <<block>> \o walk(s, find_next(s, block), fuel - 1)

RECURSIVE walk_end(_, _, _)
walk_end(s, block, fuel) == \* where that loop stops: an address, HUNG or FAULT
    IF ~InHeap(s, block) THEN FAULT
    ELSE IF ~UGt(get_size(s, block), 0) THEN block
    ELSE IF fuel = 0 THEN HUNG
    ELSE walk_end(s, find_next(s, block), fuel - 1)

WalkFuel(s) == s.brk \div 16 + 1

check_header_footer(s, block) ==
    LET footer == Rd(s, header_to_footer(s, block))
    IN  get_size(s, block) = extract_size(footer)
        /\ get_alloc(s, block) = extract_alloc(footer)

check_free_list(s) ==
    \A class \in 0 .. MAX_SEG_LIST_LENGTH - 1 :
        /\ chain_end(s, s.seg[class], {}) = NULL
        /\ \A i \in DOMAIN chain(s, s.seg[class], {}) :
              LET temp == chain(s, s.seg[class], {})[i]
              IN  ~(next_of(s, temp) > mem_heap_hi(s) \/ next_of(s, temp) < mem_heap_lo(s))

SeqSum(f, n) == LET S[i \in 0 .. n] == IF i = 0 THEN 0 ELSE S[i - 1] + f[i] IN S[n]

check_free_block_counts(s) ==
    LET W == walk(s, s.hs, WalkFuel(s))
        free_block_count == Cardinality({i \in DOMAIN W : ~get_alloc(s, W[i])})
        lens == [c \in 1 .. MAX_SEG_LIST_LENGTH |->
                    Len(chain(s, s.seg[c - 1], {}))]
        free_list_count == SeqSum(lens, MAX_SEG_LIST_LENGTH)
    IN  free_block_count = free_list_count

mm_checkheap(s) ==
    LET prologue_footer == Rd(s, find_prev_footer(s.hs))
        W == walk(s, s.hs, WalkFuel(s))
        last_block == walk_end(s, s.hs, WalkFuel(s))
    IN  /\ ~(extract_size(prologue_footer) # 0 \/ ~extract_alloc(prologue_footer))
        /\ last_block \notin {HUNG, FAULT}
        /\ \A i \in DOMAIN W :
              /\ ~(get_size(s, W[i]) % dsize # 0
                   \/ (get_size(s, W[i]) # min_block_size /\ ~check_header_footer(s, W[i])))
              /\ ~(~get_alloc(s, W[i]) /\ i > 1 /\ ~get_alloc(s, W[i - 1]))
        /\ ~(extract_size(header(s, last_block)) # 0
             \/ ~extract_alloc(header(s, last_block)))
        /\ check_free_list(s)
        /\ check_free_block_counts(s)

(* ------------------------------- the shell ----------------------------- *)
(* tsh: the read/eval loop, its three signal handlers and its children.    *)
(* sh.pc is where the shell stands: "prompt" (in main's fgets, between two *)
(* calls of eval), "forked" (handle_builtin_none, fork has returned in the *)
(* parent), "wait" (at the test of a while (fg_job()) loop), "suspended"   *)
(* (inside sigsuspend).  A handler blocks every signal on entry, so it is  *)
(* one step.  sh.entry, sh.cmd, sh.raced, sh.reaped and sh.orphan record   *)
(* what happened and are read by the claims only.                          *)
maskSelected == {"SIGINT", "SIGCHLD", "SIGTSTP"}
maskAll == maskSelected \cup {"SIGQUIT"}

main ==
    [pc |-> "prompt", mask |-> {}, previousMask |-> {}, saved |-> {}, pending |-> {},
     jobs |-> <<>>, procs |-> <<>>, processId |-> 0, ncmd |-> 0, nfork |-> 0, nkey |-> 0,
     entry |-> {}, cmd |-> "none", raced |-> {}, reaped |-> {}, orphan |-> FALSE]

(* The job list of tsh_helper: job id -> [pid, state]. *)
fg_job(jobs) ==
    IF \E j \in DOMAIN jobs : jobs[j].state = "FG"
    THEN CHOOSE j \in DOMAIN jobs : jobs[j].state = "FG" ELSE 0

job_from_pid(jobs, pid) ==
    IF \E j \in DOMAIN jobs : jobs[j].pid = pid
    THEN CHOOSE j \in DOMAIN jobs : jobs[j].pid = pid ELSE 0

add_job(jobs, pid, state) ==
    LET jid == 1 + Cardinality({j \in 1 .. MaxForks : \E k \in DOMAIN jobs : k >= j})
    IN  [j \in DOMAIN jobs \cup {jid} |-> IF j = jid THEN [pid |-> pid, state |-> state] ELSE jobs[j]]

delete_job(jobs, jid) == [j \in DOMAIN jobs \ {jid} |-> jobs[j]]

job_set_state(jobs, jid, state) == [j \in DOMAIN jobs |-> IF j = jid THEN [jobs[j] EXCEPT !.state = state] ELSE jobs[j]]

(* kill(-pid, sig) on a child that runs the default actions: SIGCONT       *)
(* resumes a stopped child, SIGINT ends a running one, SIGTSTP stops it;   *)
(* an end or a stop raises SIGCHLD in the shell.                           *)
kill(t, pid, sig) ==
    IF pid \notin DOMAIN t.procs THEN t
    ELSE IF sig = "SIGCONT" /\ t.procs[pid] \in {"stopped", "stopped_new"}
    THEN [t EXCEPT !.procs[pid] = "running"]
    ELSE IF sig \in {"SIGINT", "SIGTSTP"} /\ t.procs[pid] = "running"
    THEN [t EXCEPT !.procs[pid] = IF sig = "SIGINT" THEN "killed" ELSE "stopped_new",
                   !.pending = @ \cup {"SIGCHLD"}]
    ELSE t

(* while ((childPid = waitpid(-1, &status, WNOHANG | WUNTRACED)) > 0) *)
RECURSIVE sigchld_handler(_)
sigchld_handler(t) ==
    LET waitable == {p \in DOMAIN t.procs : t.procs[p] \in {"exited", "killed", "stopped_new"}}
    IN  IF waitable = {} THEN t
        ELSE LET childPid == CHOOSE p \in waitable : TRUE
                 jobID == job_from_pid(t.jobs, childPid)
                 stopped == t.procs[childPid] = "stopped_new"
             IN  sigchld_handler(
                     [t EXCEPT !.jobs = IF jobID = 0 THEN @
                                        ELSE IF stopped THEN job_set_state(@, jobID, "ST")
                                        ELSE delete_job(@, jobID),
                               !.procs = IF stopped THEN [@ EXCEPT ![childPid] = "stopped"]
                                         ELSE [p \in DOMAIN @ \ {childPid} |-> @[p]],
                               !.reaped = @ \cup {childPid},
                               !.orphan = @ \/ jobID = 0])

sigint_handler(t) ==
    LET foregroundJobId == fg_job(t.jobs)
    IN  IF foregroundJobId > 0 THEN kill(t, t.jobs[foregroundJobId].pid, "SIGINT") ELSE t

sigtstp_handler(t) ==
    LET foregroundJobId == fg_job(t.jobs)
    IN  IF foregroundJobId > 0 THEN kill(t, t.jobs[foregroundJobId].pid, "SIGTSTP") ELSE t

Shell(t) == sh' = t /\ UNCHANGED <<heap_vars, csim>>

AtPrompt == sh.pc = "prompt" /\ sh.ncmd < MaxCmds

(* eval, entered from the prompt with the mask of that moment. *)
Entered(cmd) == [sh EXCEPT !.ncmd = @ + 1, !.entry = sh.mask, !.cmd = cmd]

(* An empty line or a line parseline rejects. *)
EvalEmpty == AtPrompt /\ Shell(Entered("empty"))

(* jobs, to the terminal, to a file that opens, to a file that does not. *)
handle_builtin_jobs ==
    \E outfile \in {"none", "opens", "fails"} :
        /\ AtPrompt
        /\ LET t == Entered("jobs")
               previousMask == t.mask
               blocked == [t EXCEPT !.mask = @ \cup maskSelected, !.previousMask = previousMask]
           IN  Shell(IF outfile = "fails" THEN blocked
                     ELSE [blocked EXCEPT !.mask = previousMask])

parse_argument(t, arg) ==
    LET failed == [t |-> [t EXCEPT !.mask = t.previousMask], processId |-> -1]
    IN  IF arg.kind = "job"
        THEN IF arg.val = 0 \/ arg.val \notin DOMAIN t.jobs THEN failed
             ELSE [t |-> t, processId |-> t.jobs[arg.val].pid]
        ELSE IF arg.val = 0 THEN failed
             ELSE IF job_from_pid(t.jobs, arg.val) = 0 THEN failed
             ELSE [t |-> t, processId |-> arg.val]

handle_job(t, processId, newState) ==
    LET jobId == job_from_pid(t.jobs, processId)
        resumed == kill([t EXCEPT !.jobs = job_set_state(@, jobId, newState)], processId, "SIGCONT")
    IN  IF newState = "FG" THEN [resumed EXCEPT !.pc = "wait"] ELSE resumed

(* bg and fg: no argument, %jid or a pid; atoi gives 0 for a malformed one. *)
handle_builtin_bg_fg ==
    \E builtin \in {"BG", "FG"}, kind \in {"none", "job", "pid"}, val \in {0, 1, 2, 3, 11, 12, 13} :
        /\ AtPrompt
        /\ LET t == Entered(IF builtin = "FG" THEN "fg" ELSE "bg")
               blocked == [t EXCEPT !.mask = @ \cup maskAll, !.previousMask = t.mask]
               parsed == parse_argument(blocked, [kind |-> kind, val |-> val])
               handled == handle_job(parsed.t, parsed.processId, builtin)
           IN  Shell(IF kind = "none" THEN t
                     ELSE IF parsed.processId = -1 THEN parsed.t
                     ELSE IF builtin = "FG" THEN handled
                     ELSE [handled EXCEPT !.mask = handled.previousMask])

handle_builtin_none_unblocked ==   \* line 568 left out: fork with SIGCHLD open
    \E state \in {"FG", "BG"} :
        /\ AtPrompt /\ sh.nfork < MaxForks
        /\ LET t == Entered(IF state = "FG" THEN "run" ELSE "run&")
               processId == 11 + t.nfork
           IN  Shell([t EXCEPT !.previousMask = t.mask,
                               !.nfork = @ + 1, !.procs = @ @@ (processId :> "running"),
                               !.processId = processId, !.pc = "forked"])

(* Not a builtin: block, fork; the parent goes on in handle_parent_process. *)
handle_builtin_none ==
    \E state \in {"FG", "BG"} :
        /\ AtPrompt /\ sh.nfork < MaxForks
        /\ LET t == Entered(IF state = "FG" THEN "run" ELSE "run&")
               processId == 11 + t.nfork     \* what fork returns in the parent
           IN  Shell([t EXCEPT !.mask = @ \cup maskSelected, !.previousMask = t.mask,
                               !.nfork = @ + 1, !.procs = @ @@ (processId :> "running"),
                               !.processId = processId, !.pc = "forked"])

handle_parent_process ==
    /\ sh.pc = "forked"
    /\ LET processId == sh.processId
           state == IF sh.cmd = "run" THEN "FG" ELSE "BG"
           added == [sh EXCEPT !.jobs = add_job(@, processId, state)]
       IN  Shell(IF state = "FG" THEN [added EXCEPT !.pc = "wait"]
                 ELSE [added EXCEPT !.mask = added.previousMask, !.pc = "prompt"])

(* while (fg_job()) sigsuspend(previousMask); then the mask is set back. *)
WaitFg ==
    /\ sh.pc = "wait"
    /\ Shell(IF fg_job(sh.jobs) # 0
             THEN [sh EXCEPT !.pc = "suspended", !.saved = sh.mask, !.mask = sh.previousMask]
             ELSE [sh EXCEPT !.pc = "prompt", !.mask = sh.previousMask])

(* A pending signal that is not blocked runs its handler; sigsuspend then *)
(* returns with the mask it was called under.                             *)
Deliver ==
    \E sig \in (sh.pending \ sh.mask) \cap maskSelected :
        LET t == [sh EXCEPT !.pending = @ \ {sig}]
            handled == IF sig = "SIGCHLD" THEN sigchld_handler(t)
                       ELSE IF sig = "SIGINT" THEN sigint_handler(t)
                       ELSE sigtstp_handler(t)
        IN  Shell(IF sh.pc = "suspended"
                  THEN [handled EXCEPT !.pc = "wait", !.mask = sh.saved]
                  ELSE handled)

(* A running child exits, is killed or is stopped on its own. *)
ChildChange ==
    \E pid \in DOMAIN sh.procs, to \in {"exited", "killed", "stopped_new"} :
        /\ sh.procs[pid] = "running"
        /\ Shell([sh EXCEPT !.procs[pid] = to, !.pending = @ \cup {"SIGCHLD"},
                            !.raced = IF sh.pc = "forked" /\ pid = sh.processId
                                      THEN @ \cup {pid} ELSE @])

(* ctrl-c or ctrl-z at the terminal. *)
Tty ==
    \E sig \in {"SIGINT", "SIGTSTP"} :
        /\ sh.nkey < MaxKeys
        /\ Shell([sh EXCEPT !.nkey = @ + 1, !.pending = @ \cup {sig}])

(* --------------------------- the cache simulator ----------------------- *)
(* csim: a cache of 2^s sets of E lines of 2^b bytes, the statistics, and  *)
(* what the last access did (csim.acc, with the cache and the statistics   *)
(* before it).  csim.at is the number of the access that last touched each *)
(* line; access_data never reads it.                                       *)
create_cache(s, E, b) ==
    [i \in 0 .. 2 ^ s - 1 |-> [j \in 0 .. E - 1 |-> [valid |-> 0, tag |-> 0, lru |-> 0, dirty |-> 0]]]

Started(s, E, b) ==
    [s |-> s, E |-> E, b |-> b, c |-> create_cache(s, E, b),
     stats |-> [hits |-> 0, misses |-> 0, evictions |-> 0, dirty_bytes |-> 0, dirty_evictions |-> 0],
     at |-> [i \in 0 .. 2 ^ s - 1 |-> [j \in 0 .. E - 1 |-> 0]],
     n |-> 0, acc |-> [operation |-> "none"]]

RECURSIVE max_lru_youngest(_, _, _, _)
max_lru_youngest(set, E, i, max_lru_index) ==   \* line 304 with < for >
    IF i >= E THEN max_lru_index
    ELSE max_lru_youngest(set, E, i + 1, IF set[i].lru < set[max_lru_index].lru THEN i ELSE max_lru_index)

(* for (i = 1; i < E; i++) if (set[i].lru > set[max_lru_index].lru) ... *)
RECURSIVE max_lru(_, _, _, _)
max_lru(set, E, i, max_lru_index) ==
    IF i >= E THEN max_lru_index
    ELSE max_lru(set, E, i + 1, IF set[i].lru > set[max_lru_index].lru THEN i ELSE max_lru_index)

access_data(c, address, stats, s, E, b, operation) ==
    LET tag == address \div 2 ^ (s + b)
        set_index == (address \div 2 ^ b) % 2 ^ s
        set == c[set_index]
        writes == operation \in {"M", "S"}
        matching == {i \in 0 .. E - 1 : set[i].valid = 1 /\ set[i].tag = tag}
        invalid == {i \in 0 .. E - 1 : set[i].valid = 0}
        line_found == matching # {}
        found == CHOOSE i \in matching : \A k \in matching : i <= k
        empty_line == IF invalid = {} THEN -1 ELSE CHOOSE i \in invalid : \A k \in invalid : i <= k
        max_lru_index == max_lru(set, E, 1, 0)
        used == IF line_found THEN found ELSE IF empty_line # -1 THEN empty_line ELSE max_lru_index
        evicts == ~line_found /\ empty_line = -1
        line == IF line_found
                THEN [set[found] EXCEPT !.lru = 0, !.dirty = IF writes THEN 1 ELSE @]
                ELSE IF empty_line # -1
                THEN [set[empty_line] EXCEPT !.valid = 1, !.tag = tag, !.lru = 0,
                                             !.dirty = IF writes THEN 1 ELSE @]
                ELSE [valid |-> 1, tag |-> tag, lru |-> 0, dirty |-> IF writes THEN 1 ELSE 0]
        touched == [set EXCEPT ![used] = line]
    IN  [c |-> [c EXCEPT ![set_index] = [i \in 0 .. E - 1 |-> [touched[i] EXCEPT !.lru = @ + 1]]],
         stats |-> [stats EXCEPT
                        !.hits = @ + (IF line_found THEN 1 ELSE 0) + (IF operation = "M" THEN 1 ELSE 0),
                        !.misses = @ + (IF line_found THEN 0 ELSE 1),
                        !.evictions = @ + (IF evicts THEN 1 ELSE 0),
                        !.dirty_evictions = @ + (IF evicts /\ set[max_lru_index].dirty # 0 THEN 2 ^ b ELSE 0)],
         set_index |-> set_index, tag |-> tag, line |-> used, evicts |-> evicts]

(* One line of the trace file. *)
Access ==
    \E operation \in {"L", "S", "M"}, address \in {0, 1, 4, 8, 12, 16} :
        /\ csim.n < MaxAccesses
        /\ LET r == access_data(csim.c, address, csim.stats, csim.s, csim.E, csim.b, operation)
           IN  csim' = [csim EXCEPT !.c = r.c, !.stats = r.stats, !.n = @ + 1,
                                    !.at[r.set_index][r.line] = csim.n + 1,
                                    !.acc = [operation |-> operation, address |-> address,
                                             set_index |-> r.set_index, tag |-> r.tag,
                                             line |-> r.line, evicts |-> r.evicts,
                                             c |-> csim.c, stats |-> csim.stats, at |-> csim.at]]
        /\ UNCHANGED <<heap_vars, sh>>

(* The shell and the cache simulator run apart from the allocator, which  *)
(* stays as it is before mm_init.                                         *)
InitShell ==
    /\ mem = <<>> /\ fresh = 0 /\ brk = 0 /\ heap_start = NULL
    /\ seg_list = [c \in 0 .. MAX_SEG_LIST_LENGTH - 1 |-> NULL]
    /\ status = "ok" /\ live = EmptyBag /\ nwrites = 0 /\ nops = 0
    /\ last = [op |-> "none"]
    /\ sh = main
    /\ csim = Started(0, 1, 0)

NextShell ==
    \/ EvalEmpty
    \/ handle_builtin_jobs
    \/ handle_builtin_bg_fg
    \/ handle_builtin_none
    \/ handle_parent_process
    \/ WaitFg
    \/ Deliver
    \/ ChildChange
    \/ Tty

SpecShell == InitShell /\ [][NextShell]_vars

(* The shell's own steps are taken, and a pending signal that is not      *)
(* blocked is delivered; children and the terminal owe nothing.           *)
SpecShellFair ==
    SpecShell /\ WF_vars(handle_parent_process) /\ WF_vars(WaitFg) /\ WF_vars(Deliver)

(* Caches of one or two sets of one or two lines of four bytes. *)
InitCache ==
    /\ mem = <<>> /\ fresh = 0 /\ brk = 0 /\ heap_start = NULL
    /\ seg_list = [c \in 0 .. MAX_SEG_LIST_LENGTH - 1 |-> NULL]
    /\ status = "ok" /\ live = EmptyBag /\ nwrites = 0 /\ nops = 0
    /\ last = [op |-> "none"]
    /\ sh = main
    /\ csim \in {Started(s, E, b) : s \in {0, 1}, E \in {1, 2}, b \in {2}}

SpecCache == InitCache /\ [][Access]_vars

(* ----------------------------- state machine --------------------------- *)
Cur == [mem |-> mem, brk |-> brk, hs |-> heap_start, seg |-> seg_list,
        st |-> status, nsbrk |-> 0, sbrkfail |-> FALSE, lr |-> FALSE, ev |-> <<>>]

Call(op, ptr, n, r) ==
    [op |-> op, ptr |-> ptr, n |-> n, ret |-> r.bp, nsbrk |-> r.s.nsbrk,
     sbrkfail |-> r.s.sbrkfail, lr |-> r.s.lr, init |-> heap_start # NULL,
     ev |-> r.s.ev, after |-> last.op]

Commit(s) ==
    /\ mem' = s.mem
    /\ brk' = s.brk
    /\ heap_start' = s.hs
    /\ seg_list' = s.seg
    /\ status' = s.st
    /\ fresh' = fresh
    /\ nops' = nops + 1
    /\ UNCHANGED <<sh, csim>>

Ready(budget) == status = "ok" /\ nops < budget

Init ==
    /\ mem = <<>>
    /\ fresh \in FreshVals
    /\ brk = 0
    /\ heap_start = NULL
    /\ seg_list = [c \in 0 .. MAX_SEG_LIST_LENGTH - 1 |-> NULL]
    /\ status = "ok"
    /\ live = EmptyBag
    /\ nwrites = 0
    /\ nops = 0
    /\ sh = main
    /\ csim = Started(0, 1, 0)
    /\ last = [op |-> "none", ptr |-> NULL, n |-> 0, ret |-> NULL, nsbrk |-> 0,
               sbrkfail |-> FALSE, lr |-> FALSE, init |-> FALSE, ev |-> <<>>]

MmInitIn(budget) ==
    /\ Ready(budget) /\ heap_start = NULL
    /\ \E r \in {mm_init(Cur)} :
           /\ Commit(r.s)
           /\ last' = Call("mm_init", NULL, 0, [s |-> r.s, bp |-> NULL])
    /\ UNCHANGED <<live, nwrites>>

Grant(r, n) ==   \* the caller keeps a non-null result
    live' = IF r.bp # NULL /\ r.s.st = "ok"
            THEN live (+) SetToBag({[ptr |-> r.bp, n |-> n]}) ELSE live

MallocOf(sizes, budget) ==
    \E n \in sizes :
        /\ Ready(budget) /\ BagCardinality(live) < MaxLive
        /\ \E r \in {malloc(Cur, n)} :
               /\ Commit(r.s)
               /\ Grant(r, n)
               /\ last' = Call("malloc", NULL, n, r)
        /\ UNCHANGED nwrites

CallocOf(args, budget) ==
    \E a \in args :
        /\ Ready(budget) /\ BagCardinality(live) < MaxLive
        /\ \E r \in {calloc(Cur, Wide(a[1]), Wide(a[2]))} :
               /\ Commit(r.s)
               /\ Grant(r, a[1] * a[2])
               /\ last' = Call("calloc", NULL, a[1] * a[2], r)
                           @@ [c |-> Wide(a[1]), s |-> Wide(a[2])]
        /\ UNCHANGED nwrites

FreeIn(budget) ==
    \E h \in BagToSet(live) :
        /\ Ready(budget)
        /\ \E s \in {free(Cur, h.ptr)} :
               /\ Commit(s)
               /\ last' = Call("free", h.ptr, 0, [s |-> s, bp |-> NULL]) @@ [was |-> Cur]
        /\ live' = live (-) SetToBag({h})
        /\ UNCHANGED nwrites

FreeNullIn(budget) ==   \* free(NULL)
    /\ Ready(budget)
    /\ \E s \in {free(Cur, NULL)} :
           /\ Commit(s)
           /\ last' = Call("free", NULL, 0, [s |-> s, bp |-> NULL])
    /\ UNCHANGED <<live, nwrites>>

ReallocOf(sizes, budget) ==
    \E h \in BagToSet(live), n \in sizes :
        /\ Ready(budget)
        /\ \E r \in {realloc(Cur, h.ptr, n)} :
               /\ Commit(r.s)
               /\ live' = IF n # 0 /\ r.bp = NULL THEN live   \* h is kept
                          ELSE IF r.bp = NULL \/ r.s.st # "ok"
                          THEN live (-) SetToBag({h})
                          ELSE (live (-) SetToBag({h}))
                                 (+) SetToBag({[ptr |-> r.bp, n |-> n]})
               /\ last' = Call("realloc", h.ptr, n, r)
        /\ UNCHANGED nwrites

ReallocNullOf(sizes, budget) ==
    \E n \in sizes :
        /\ Ready(budget) /\ BagCardinality(live) < MaxLive
        /\ \E r \in {realloc(Cur, NULL, n)} :
               /\ Commit(r.s)
               /\ Grant(r, n)
               /\ last' = Call("realloc", NULL, n, r)
        /\ UNCHANGED nwrites

(* The caller stores a word at the start, second word or end of the payload *)
(* it has just been given.                                                 *)
StoreOffsets(n) == {o \in {0, 8, 8 * ((n \div 8) - 1)} : o >= 0 /\ o + 8 <= n}

StoreIn(budget) ==
    \E h \in BagToSet(live), v \in {4242} :
        \E o \in StoreOffsets(h.n) :
            /\ Ready(budget) /\ nwrites < MaxWrites
            /\ last.ret = h.ptr
            /\ \E s \in {Wr(Cur, h.ptr + o, v)} : Commit(s)
            /\ nwrites' = nwrites + 1
            /\ last' = [op |-> "store", ptr |-> h.ptr, n |-> o, ret |-> NULL,
                        nsbrk |-> 0, sbrkfail |-> FALSE, lr |-> FALSE,
                        init |-> TRUE, ev |-> <<>>]
            /\ UNCHANGED live

(* The whole interface, on requests whose adjusted size does not wrap. *)

Next ==
    \/ MmInitIn(MaxOps)
    \/ MallocOf(MallocSizes, MaxOps)
    \/ CallocOf({<<3, 8>>}, MaxOps)
    \/ FreeIn(MaxOps)
    \/ ReallocOf({0, 1, 4090}, MaxOps)
    \/ ReallocNullOf({24}, MaxOps)
    \/ StoreIn(MaxOps)

Spec == Init /\ [][Next]_vars

(* Longer runs of malloc and free alone. *)

NextHeap ==
    \/ MmInitIn(MaxHeapOps)
    \/ MallocOf(MallocSizes, MaxHeapOps)
    \/ FreeIn(MaxHeapOps)

SpecHeap == Init /\ [][NextHeap]_vars

(* Runs with requests within 8 of the largest size_t, where size + wsize *)
(* wraps in malloc.                                                      *)

NextWide ==
    \/ MmInitIn(MaxWideOps)
    \/ MallocOf({24, -1, -8}, MaxWideOps)
    \/ FreeIn(MaxWideOps)
    \/ ReallocOf({-8}, MaxWideOps)
    \/ StoreIn(MaxWideOps)

SpecWide == Init /\ [][NextWide]_vars

(* The whole interface on its edge arguments: NULL pointers, zero sizes   *)
(* and zero counts, next to ordinary requests.                            *)

NextEdge ==
    \/ MmInitIn(MaxEdgeOps)
    \/ MallocOf({0, 24}, MaxEdgeOps)
    \/ CallocOf({<<3, 8>>, <<5, 1>>, <<0, 10>>, <<10, 0>>}, MaxEdgeOps)
    \/ FreeIn(MaxEdgeOps)
    \/ FreeNullIn(MaxEdgeOps)
    \/ ReallocOf({0}, MaxEdgeOps)
    \/ ReallocNullOf({0, 24}, MaxEdgeOps)
    \/ StoreIn(MaxEdgeOps)

SpecEdge == Init /\ [][NextEdge]_vars

(* A caller that holds up to six blocks of one size at a time, so that a  *)
(* bucket holds three blocks and a block is freed between free blocks.    *)
ListMalloc ==
    \E n \in {1, 24} :
        /\ Ready(MaxListOps) /\ BagCardinality(live) < MaxListLive
        /\ \A h \in BagToSet(live) : h.n = n
        /\ last.op = "free" => BagCardinality(live) = 0
        /\ \E r \in {malloc(Cur, n)} :
               /\ Commit(r.s)
               /\ Grant(r, n)
               /\ last' = Call("malloc", NULL, n, r)
        /\ UNCHANGED nwrites

NextList == ListMalloc \/ FreeIn(MaxListOps)

SpecList == Init /\ [][NextList]_vars

(* Requests of 48, 64 and 4096 bytes: two sizes of one bucket, and the    *)
(* size of the first chunk.  The caller fills its slots, then releases    *)
(* blocks and asks for one block after a release.                         *)
FitMalloc ==
    \E n \in {40, 56, 4088} :
        /\ Ready(MaxFitOps) /\ BagCardinality(live) < MaxFitLive
        /\ nops = BagCardinality(live) \/ last.op = "free"
        /\ \E r \in {malloc(Cur, n)} :
               /\ Commit(r.s)
               /\ Grant(r, n)
               /\ last' = Call("malloc", NULL, n, r)
        /\ UNCHANGED nwrites

NextFit == FitMalloc \/ FreeIn(MaxFitOps)

SpecFit == Init /\ [][NextFit]_vars

(* Functions of their arguments alone: one call of calloc on a new        *)
(* allocator, or one call of pack, on arguments drawn over the whole      *)
(* range of size_t.                                                       *)
FnSizes ==
    {Wide(0), Wide(1), Wide(3), Wide(10), Wide(-1), Wide(-8),
     <<0, 0, 0, 0, 1, 0, 0, 0>>,              \* 2^32
     <<1, 0, 0, 0, 1, 0, 0, 0>>,              \* 2^32 + 1
     <<255, 255, 255, 255, 0, 0, 0, 0>>,      \* 2^32 - 1
     <<0, 0, 0, 0, 0, 0, 0, 128>>,            \* 2^63
     <<85, 85, 85, 85, 85, 85, 85, 85>>,      \* (2^64 - 1) / 3
     <<86, 85, 85, 85, 85, 85, 85, 85>>}      \* (2^64 - 1) / 3 + 1

FnMallocSizes ==
    FnSizes \cup {Wide(24), Wide(4090), Wide(-24),
                  <<248, 255, 255, 255, 255, 255, 255, 127>>,   \* 2^63 - 8
                  <<249, 255, 255, 255, 255, 255, 255, 127>>}   \* 2^63 - 7

InitFn ==
    /\ mem = <<>>
    /\ fresh \in FreshVals
    /\ brk = 0
    /\ heap_start = NULL
    /\ seg_list = [c \in 0 .. MAX_SEG_LIST_LENGTH - 1 |-> NULL]
    /\ status = "ok"
    /\ live = EmptyBag
    /\ nwrites = 0
    /\ nops = 0
    /\ sh = main
    /\ csim = Started(0, 1, 0)
    /\ last \in {[op |-> "calloc_args", c |-> c, s |-> s] : c, s \in FnSizes}
             \cup {[op |-> "malloc_args", n |-> n] : n \in FnMallocSizes}
             \cup {[op |-> "class_args", size |-> size] : size \in ClassSizes}
             \cup {[op |-> "pack_args", size |-> size, pre_min |-> pm,
                    pre_alloc |-> pa, alloc |-> al] :
                      size \in PackSizes, pm, pa, al \in BOOLEAN}

FnCalloc ==
    /\ last.op = "calloc_args"
    /\ \E r \in {calloc(Cur, last.c, last.s)} :
           /\ Commit(r.s)
           /\ Grant(r, Narrow(Mul64(last.c, last.s)))
           /\ last' = Call("calloc", NULL, Narrow(Mul64(last.c, last.s)), r)
                       @@ [c |-> last.c, s |-> last.s]
    /\ UNCHANGED nwrites

FnPack ==
    /\ last.op = "pack_args"
    /\ last' = [op |-> "pack", size |-> last.size, pre_min |-> last.pre_min,
                pre_alloc |-> last.pre_alloc, alloc |-> last.alloc,
                word |-> pack(last.size, last.pre_min, last.pre_alloc, last.alloc)]
    /\ UNCHANGED <<mem, fresh, brk, heap_start, seg_list, status, live, nwrites, nops, sh, csim>>

FnMalloc ==
    /\ last.op = "malloc_args"
    /\ \E r \in {malloc(Cur, Narrow(last.n))} :
           /\ Commit(r.s)
           /\ Grant(r, Narrow(last.n))
           /\ last' = Call("malloc", NULL, Narrow(last.n), r) @@ [wide |-> last.n]
    /\ UNCHANGED nwrites

FnClass ==
    /\ last.op = "class_args"
    /\ last' = [op |-> "class", size |-> last.size,
                class |-> find_seg_list_class(last.size)]
    /\ UNCHANGED <<mem, fresh, brk, heap_start, seg_list, status, live, nwrites, nops, sh, csim>>

NextFn == FnCalloc \/ FnPack \/ FnMalloc \/ FnClass

SpecFn == InitFn /\ [][NextFn]_vars

(* ------------------------------- claims -------------------------------- *)
Booted == heap_start # NULL /\ status = "ok"

Blocks == walk(Cur, heap_start, WalkFuel(Cur))       \* the heap, block by block
Epilogue == walk_end(Cur, heap_start, WalkFuel(Cur)) \* where the walk stops
BlockSet == {Blocks[i] : i \in DOMAIN Blocks}
FreeSet == {b \in BlockSet : ~get_alloc(Cur, b)}
Bucket(c) == chain(Cur, seg_list[c], {})
Classes == 0 .. MAX_SEG_LIST_LENGTH - 1

PayloadEnd(h) == h.ptr + get_payload_size(Cur, payload_to_header(h.ptr))

(* C1: the payloads of the blocks the caller holds (handed out and not    *)
(* yet freed) are pairwise disjoint, none is held twice, and each lies     *)
(* between the prologue and the epilogue.                                  *)
C1_PayloadsDisjoint ==
    Booted =>
        /\ \A h \in BagToSet(live) :
              /\ CopiesIn(h, live) = 1
              /\ h.ptr > mem_start_brk
              /\ PayloadEnd(h) <= Epilogue
        /\ \A h1, h2 \in BagToSet(live) :
              h1 # h2 => (PayloadEnd(h1) <= h2.ptr \/ PayloadEnd(h2) <= h1.ptr)

(* C2: a non-null result of malloc(n), n > 0, is the payload of a block    *)
(* whose payload size is at least n, for every n of the size type.         *)
C2_PayloadCoversRequest ==
    (status = "ok" /\ last.op = "malloc" /\ last.n # 0 /\ last.ret # NULL) =>
        UGe(get_payload_size(Cur, payload_to_header(last.ret)), last.n)

(* C3: mm_checkheap returns true after mm_init and after every completed   *)
(* malloc, free, realloc or calloc.                                        *)
C3_CheckheapHolds == Booted => mm_checkheap(Cur)

(* C4: at every operation boundary no two physically adjacent blocks of    *)
(* the heap, walked from heap_start to the epilogue, are both free.        *)
C4_NoAdjacentFree ==
    Booted =>
        \A i \in DOMAIN Blocks :
            i > 1 => (get_alloc(Cur, Blocks[i - 1]) \/ get_alloc(Cur, Blocks[i]))

(* C5: at every operation boundary the blocks reachable from the bucket    *)
(* heads are exactly the free blocks of the heap walk, each reachable from *)
(* exactly one bucket exactly once, every chain ending in NULL.            *)
C5_ListsAreTheFreeBlocks ==
    Booted =>
        /\ \A c \in Classes : chain_end(Cur, seg_list[c], {}) = NULL
        /\ \A c \in Classes : \A i \in DOMAIN Bucket(c) : Bucket(c)[i] \in FreeSet
        /\ \A b \in FreeSet :
              Cardinality({ci \in Classes \X (1 .. Cardinality(FreeSet) + 1) :
                              ci[2] \in DOMAIN Bucket(ci[1])
                              /\ Bucket(ci[1])[ci[2]] = b}) = 1

(* C6: at every operation boundary every block linked in seg_list[i] is    *)
(* free and of size class i, and no call changed the size of a block while *)
(* it was linked in a bucket.                                              *)
C6_BucketHoldsItsClass ==
    Booted =>
        /\ \A c \in Classes : \A i \in DOMAIN Bucket(c) :
              /\ ~get_alloc(Cur, Bucket(c)[i])
              /\ find_seg_list_class(get_size(Cur, Bucket(c)[i])) = c
        /\ ~last.lr

(* C7: at every operation boundary every block whose size is not the       *)
(* 16-byte minimum, allocated or free, ends in a footer word whose size    *)
(* and allocation bit equal those of its header.                           *)
C7_FooterMirrorsHeader ==
    Booted =>
        \A i \in DOMAIN Blocks :
            get_size(Cur, Blocks[i]) # min_block_size => check_header_footer(Cur, Blocks[i])

(* The state a step leaves, and the bytes of a payload. *)
Post == [mem |-> mem', brk |-> brk', hs |-> heap_start', seg |-> seg_list',
         st |-> status', nsbrk |-> 0, sbrkfail |-> FALSE, lr |-> FALSE, ev |-> <<>>]

ByteOf(w, j) == IF j >= 4 THEN 0 ELSE (w \div (256 ^ j)) % 256
ByteAt(s, a, j) == ByteOf(Rd(s, a + 8 * (j \div 8)), j % 8)

InFreeBlock(s, a) ==
    \E i \in DOMAIN walk(s, s.hs, WalkFuel(s)) :
        LET b == walk(s, s.hs, WalkFuel(s))[i]
        IN  ~get_alloc(s, b) /\ b <= a /\ a < b + get_size(s, b)

(* C8: a successful realloc(p, n), p non-null and n > 0, returns a payload *)
(* other than p whose first min(n, old payload size) bytes are the bytes   *)
(* p's payload held at the call, and leaves p's block free.                *)
C8_ReallocKeepsBytes ==
    [][(last'.op = "realloc" /\ last'.ptr # NULL /\ last'.n # 0 /\ last'.ret # NULL
        /\ status' = "ok")
         => LET p == last'.ptr
                q == last'.ret
                old == get_payload_size(Cur, payload_to_header(p))
                k == IF ULt(last'.n, old) THEN last'.n ELSE old
            IN  /\ q # p
                /\ \A j \in 0 .. k - 1 : ByteAt(Post, q, j) = ByteAt(Cur, p, j)
                /\ InFreeBlock(Post, payload_to_header(p))]_vars

(* C9: when realloc(p, n), p non-null and n > 0, fails because the heap    *)
(* cannot grow, it returns NULL and nothing has changed: no heap word, no  *)
(* bucket head, not the heap extent, and p is still held.                  *)
C9_FailedReallocChangesNothing ==
    [][(last'.op = "realloc" /\ last'.ptr # NULL /\ last'.n # 0 /\ last'.sbrkfail)
         => (/\ last'.ret = NULL
             /\ status' = "ok"
             /\ mem' = mem
             /\ brk' = brk
             /\ heap_start' = heap_start
             /\ seg_list' = seg_list
             /\ live' = live)]_vars

C9_Witness ==
    /\ last.op = "realloc" /\ last.ptr # NULL /\ last.n # 0 /\ last.sbrkfail
    /\ last.ret = NULL /\ get_alloc(Cur, payload_to_header(last.ptr))

(* C10: on an initialized heap a malloc, calloc or realloc whose growth    *)
(* request fails returns NULL, and that request was the only one it made.  *)
C10_OneGrowthRequest ==
    (last.op \in {"malloc", "calloc", "realloc"} /\ last.init /\ last.sbrkfail) =>
        (last.ret = NULL /\ last.nsbrk = 1)

C10_Witness ==
    last.op = "malloc" /\ last.init /\ last.sbrkfail /\ last.ret = NULL

(* C11: a non-null result of calloc(c, s) is a payload whose first c*s    *)
(* bytes are all zero, whatever the block held before the call.           *)
C11_CallocZeroed ==
    (status = "ok" /\ last.op = "calloc" /\ last.ret # NULL) =>
        \A j \in 0 .. last.n - 1 : ByteAt(Cur, last.ret, j) = 0

(* calloc has reused the block whose payload the caller wrote and freed. *)
C11_Witness ==
    /\ status = "ok" /\ last.op = "calloc" /\ last.ret # NULL /\ last.n > 0
    /\ nwrites = 1 /\ nops = 4 /\ BagCardinality(live) = 1

(* The product of two size_t values does not fit in 64 bits. *)
Overflows(c, s) == \E k \in 9 .. 16 : Product(c, s)[k] # 0

(* C12: calloc(c, s) returns NULL whenever c = 0, whenever s = 0 and      *)
(* whenever c*s is not representable in size_t; for c > 0 the test        *)
(* (c*s mod 2^64) / c # s is true for exactly the pairs whose product     *)
(* overflows.                                                             *)
C12_CallocRejects ==
    last.op = "calloc" =>
        /\ (last.c = Wide(0) \/ last.s = Wide(0) \/ Overflows(last.c, last.s))
              => (last.ret = NULL /\ status = "ok")
        /\ last.c # Wide(0) =>
              ((Div64(Mul64(last.c, last.s), last.c) # last.s)
                  <=> Overflows(last.c, last.s))

(* An overflowing pair whose wrapped product, 2, malloc would have served. *)
C12_Witness ==
    /\ last.op = "calloc" /\ Overflows(last.c, last.s) /\ last.ret = NULL
    /\ Narrow(Mul64(last.c, last.s)) = 2

(* The step leaves the allocator in state s. *)
Leaves(s) ==
    /\ mem' = s.mem
    /\ brk' = s.brk
    /\ heap_start' = s.hs
    /\ seg_list' = s.seg
    /\ status' = s.st

(* C13, as stated: realloc(NULL, n) returns the pointer and leaves the    *)
(* state that malloc(n) gives from the same state, for every n; and       *)
(* realloc(p, 0) returns NULL and leaves the state free(p) gives.         *)
C13_ReallocEdgesAsStated ==
    [][/\ (last'.op = "realloc" /\ last'.ptr = NULL) =>
              \E m \in {malloc(Cur, last'.n)} : last'.ret = m.bp /\ Leaves(m.s)
       /\ (last'.op = "realloc" /\ last'.n = 0) =>
              \E f \in {free(Cur, last'.ptr)} : last'.ret = NULL /\ Leaves(f)]_vars

(* C13, amended: realloc(NULL, n) is malloc(n) when n > 0 or the          *)
(* allocator is initialized; realloc(p, 0), p NULL or not, returns NULL   *)
(* and leaves the state free(p) gives (so realloc(NULL, 0) never          *)
(* initializes the heap, as malloc(0) does).                              *)
C13_ReallocEdges ==
    [][/\ (last'.op = "realloc" /\ last'.ptr = NULL
           /\ (last'.n # 0 \/ heap_start # NULL)) =>
              \E m \in {malloc(Cur, last'.n)} : last'.ret = m.bp /\ Leaves(m.s)
       /\ (last'.op = "realloc" /\ last'.n = 0) =>
              \E f \in {free(Cur, last'.ptr)} : last'.ret = NULL /\ Leaves(f)]_vars

C13_Witness ==
    /\ status = "ok" /\ last.op = "realloc" /\ last.ptr = NULL /\ last.n # 0
    /\ last.ret # NULL /\ [ptr |-> last.ret, n |-> last.n] \in BagToSet(live)
    /\ get_alloc(Cur, payload_to_header(last.ret))

(* C14, as stated: malloc(0) returns NULL and changes nothing in every    *)
(* state, a never-initialized allocator included: heap extent, heap       *)
(* words and bucket heads are as before the call.                         *)
C14_MallocZeroNoOpAsStated ==
    [][(last'.op = "malloc" /\ last'.n = 0) =>
          (/\ last'.ret = NULL
           /\ status' = "ok"
           /\ mem' = mem
           /\ brk' = brk
           /\ seg_list' = seg_list)]_vars

(* C14, amended: malloc(0) returns NULL; on an initialized allocator it   *)
(* changes nothing; on a never-initialized one it leaves the state that   *)
(* mm_init leaves.                                                        *)
C14_MallocZeroNoOp ==
    [][(last'.op = "malloc" /\ last'.n = 0) =>
          (/\ last'.ret = NULL
           /\ status' = "ok"
           /\ live' = live
           /\ heap_start # NULL =>
                 (/\ mem' = mem
                  /\ brk' = brk
                  /\ heap_start' = heap_start
                  /\ seg_list' = seg_list)
           /\ heap_start = NULL => \E i \in {mm_init(Cur)} : Leaves(i.s))]_vars

C14_Witness ==
    /\ status = "ok" /\ last.op = "malloc" /\ last.n = 0 /\ last.ret = NULL
    /\ last.init /\ BagCardinality(live) >= 1 /\ FreeSet # {}

(* C15: free(NULL) leaves the whole allocator state unchanged: no heap    *)
(* word, bucket head or heap extent is modified.                          *)
C15_FreeNullNoOp ==
    [][(last'.op = "free" /\ last'.ptr = NULL) =>
          (/\ status' = "ok"
           /\ mem' = mem
           /\ brk' = brk
           /\ heap_start' = heap_start
           /\ seg_list' = seg_list
           /\ live' = live)]_vars

C15_Witness ==
    /\ Booted /\ last.op = "free" /\ last.ptr = NULL
    /\ BagCardinality(live) >= 1 /\ FreeSet # {}

(* C16: whenever every block handed out so far has been freed, the heap   *)
(* is one free block from heap_start to the epilogue, of size heap extent *)
(* minus 16, and it is the only entry of the free-list table, in the      *)
(* bucket of its size class.                                              *)
C16_AllFreedOneBlock ==
    (Booted /\ live = EmptyBag) =>
        /\ Blocks = <<heap_start>>
        /\ ~get_alloc(Cur, heap_start)
        /\ get_size(Cur, heap_start) = brk - 16
        /\ \A c \in Classes :
              Bucket(c) = IF c = find_seg_list_class(brk - 16)
                          THEN <<heap_start>> ELSE <<>>
        /\ \A c \in Classes : chain_end(Cur, seg_list[c], {}) = NULL

(* C17: the first region mem_sbrk returns being 16-byte aligned, every    *)
(* block of the heap has a size that is a positive multiple of 16, and    *)
(* every pointer malloc, calloc or realloc returned is a multiple of 16.  *)
C17_AlignedBlocksAndPointers ==
    (Booted /\ mem_start_brk % 16 = 0) =>
        /\ \A b \in BlockSet :
              /\ get_size(Cur, b) > 0
              /\ get_size(Cur, b) % 16 = 0
              /\ header_to_payload(b) % 16 = 0
        /\ \A h \in BagToSet(live) : h.ptr % 16 = 0
        /\ (last.op \in {"malloc", "calloc", "realloc"} /\ last.ret # NULL)
              => last.ret % 16 = 0

(* Three payloads are held, one of them in a block of the minimum size. *)
C17_Witness ==
    /\ Booted /\ mem_start_brk % 16 = 0
    /\ last.op \in {"malloc", "calloc", "realloc"} /\ last.ret # NULL
    /\ BagCardinality(live) = 3
    /\ \E h \in BagToSet(live) :
          get_size(Cur, payload_to_header(h.ptr)) = min_block_size

(* C18: at every operation boundary after initialization the word before *)
(* heap_start is a prologue footer of size 0 with the allocated bit set,  *)
(* and following header sizes from heap_start passes only blocks of       *)
(* non-zero size and ends at a header of size 0 with the allocated bit    *)
(* set in the last 8 bytes of the heap; the sizes sum to the heap extent  *)
(* minus 16.                                                              *)
C18_SentinelsBoundTheHeap ==
    Booted =>
        /\ extract_size(Rd(Cur, find_prev_footer(heap_start))) = 0
        /\ extract_alloc(Rd(Cur, find_prev_footer(heap_start)))
        /\ \A b \in BlockSet : get_size(Cur, b) # 0
        /\ Epilogue = mem_heap_hi(Cur) - 7
        /\ get_size(Cur, Epilogue) = 0
        /\ get_alloc(Cur, Epilogue)
        /\ SeqSum([i \in DOMAIN Blocks |-> get_size(Cur, Blocks[i])], Len(Blocks))
              = brk - 16

(* A block whose header is the given word. *)
HeaderIs(word) == [Cur EXCEPT !.mem = 24 :> word]

(* C19: for every size that is a multiple of 16 and every combination of  *)
(* the three flags, the word pack returns decodes to its inputs:          *)
(* extract_size gives size, extract_alloc gives alloc, get_pre_alloc and  *)
(* get_pre_min give pre_alloc and pre_min; the three flags are distinct   *)
(* bits among the low 4.                                                  *)
C19_PackRoundTrip ==
    (last.op = "pack" /\ last.size % 16 = 0) =>
        /\ extract_size(last.word) = last.size
        /\ extract_alloc(last.word) = last.alloc
        /\ get_pre_alloc(HeaderIs(last.word), 24) = last.pre_alloc
        /\ get_pre_min(HeaderIs(last.word), 24) = last.pre_min
        /\ {alloc_mask, pre_alloc_mark, pre_min_mark} \subseteq {1, 2, 4, 8}
        /\ Cardinality({alloc_mask, pre_alloc_mark, pre_min_mark}) = 3

C19_Witness ==
    /\ last.op = "pack" /\ last.size = 4096
    /\ last.pre_min /\ ~last.pre_alloc /\ last.alloc /\ last.word = 4101

C21_MallocTerminates ==
    /\ (last.op = "malloc" => status # "hung")
    /\ (last.op = "class" => last.class # HUNG)

(* What one call did, step by step. *)
Trace == IF "ev" \in DOMAIN last THEN last.ev ELSE <<>>
Ran(op) == {i \in DOMAIN Trace : Trace[i].op = op /\ Trace[i].post.st = "ok"}

FreeBlocksOf(v) ==
    LET heap == walk(v, v.hs, WalkFuel(v))
    IN  {heap[i] : i \in {k \in DOMAIN heap : ~get_alloc(v, heap[k])}}
BucketOf(v, c) == chain(v, v.seg[c], {})
LinkedIn(v) == UNION {{BucketOf(v, c)[i] : i \in DOMAIN BucketOf(v, c)} : c \in Classes}

(* C22: malloc calls extend_heap only when no free block of the heap, in  *)
(* whatever bucket, has size >= asize, and it asks for exactly            *)
(* max(asize, 4096) bytes.                                                *)
C22_GrowthOnlyOnTotalMiss ==
    \A i \in Ran("find_fit"), j \in Ran("extend_heap") :
        i < j =>
            LET asize == Trace[i].size
                pre == Trace[j].pre
            IN  /\ Trace[j].size = IF UGt(asize, 4096) THEN asize ELSE 4096
                /\ \A b \in FreeBlocksOf(pre) \cup LinkedIn(pre) :
                       ULt(get_size(pre, b), asize)

RECURSIVE BucketsFrom(_, _)
BucketsFrom(v, c) ==   \* buckets c, c + 1, ... end to end
    IF c >= MAX_SEG_LIST_LENGTH THEN <<>> ELSE BucketOf(v, c) \o BucketsFrom(v, c + 1)

(* C23: find_fit(asize) returns the first block, in the order of buckets  *)
(* from find_seg_list_class(asize) up and of list position within a       *)
(* bucket, among the free blocks of size >= asize, and NULL when there is *)
(* none: blocks that are too small are passed over and a smaller fit      *)
(* further on is not preferred.                                           *)
C23_FirstFitInBucketOrder ==
    \A i \in Ran("find_fit") :
        find_seg_list_class(Trace[i].size) # HUNG =>
            LET pre == Trace[i].pre
                asize == Trace[i].size
                order == BucketsFrom(pre, find_seg_list_class(asize))
                fits == {k \in DOMAIN order : /\ ~get_alloc(pre, order[k])
                                               /\ UGe(get_size(pre, order[k]), asize)}
                first == CHOOSE k \in fits : \A j \in fits : k <= j
            IN  Trace[i].ret = IF fits = {} THEN NULL ELSE order[first]

(* C24: placing a request of adjusted size asize in a free block of size  *)
(* B leaves, when B - asize >= 16, an allocated block of size asize       *)
(* followed at once by a free block of size B - asize that is linked in   *)
(* the bucket of its size; otherwise the whole block of size B is         *)
(* allocated and no free block is added.  Either way the chosen block is  *)
(* in no bucket.                                                          *)
C24_SplitOrTakeWhole ==
    \A i \in Ran("split_block") :
        LET pre == Trace[i].pre
            post == Trace[i].post
            b == Trace[i].block
            asize == Trace[i].size
            B == get_size(pre, b)
            rest == b + asize
        IN  /\ b \notin LinkedIn(post)
            /\ get_alloc(post, b)
            /\ IF UGe(B - asize, 16)
               THEN /\ get_size(post, b) = asize
                    /\ ~get_alloc(post, rest)
                    /\ get_size(post, rest) = B - asize
                    /\ \E k \in DOMAIN BucketOf(post, find_seg_list_class(B - asize)) :
                           BucketOf(post, find_seg_list_class(B - asize))[k] = rest
                    /\ FreeBlocksOf(post) = (FreeBlocksOf(pre) \ {b}) \cup {rest}
               ELSE /\ get_size(post, b) = B
                    /\ FreeBlocksOf(post) = FreeBlocksOf(pre) \ {b}

(* C25: between calls, every block header and the epilogue header carry   *)
(* in the previous-allocated bit the allocation status of the block       *)
(* physically before them (set for the first block, which follows the      *)
(* prologue) and in the previous-is-minimum bit whether that block has     *)
(* size 16.                                                                *)
C25_PreviousBitsMatch ==
    (Booted /\ Epilogue \notin {HUNG, FAULT}) =>
        LET W == Blocks \o <<Epilogue>>
        IN  \A i \in DOMAIN W :
                /\ get_pre_alloc(Cur, W[i]) = (i = 1 \/ get_alloc(Cur, W[i - 1]))
                /\ get_pre_min(Cur, W[i])
                       = (i > 1 /\ get_size(Cur, W[i - 1]) = min_block_size)

(* The physical neighbours of block b in heap v, by the walk from the      *)
(* first block: the free block that ends where b starts and the free       *)
(* block that starts where b ends, NULL where the neighbour is allocated   *)
(* (or is the prologue or the epilogue).                                   *)
FreeBefore(v, b) ==
    LET P == {p \in FreeBlocksOf(v) : p + get_size(v, p) = b}
    IN  IF P = {} THEN NULL ELSE CHOOSE p \in P : TRUE

FreeAfter(v, b) ==
    LET n == b + get_size(v, b)
    IN  IF n \in FreeBlocksOf(v) THEN n ELSE NULL

(* C26: coalesce_block(b) returns a free block that covers b and each     *)
(* physically adjacent block that was free, no more: it starts at the     *)
(* free predecessor when there is one (reached through the predecessor's  *)
(* footer, or 16 bytes back for a minimum-size predecessor) and at b      *)
(* otherwise, and its size is the sum of the sizes merged.                *)
C26_CoalesceCoversNeighbours ==
    \A i \in Ran("coalesce_block") :
        LET pre == Trace[i].pre
            post == Trace[i].post
            b == Trace[i].block
            before == FreeBefore(pre, b)
            after == FreeAfter(pre, b)
            merged(x) == IF x = NULL THEN 0 ELSE get_size(pre, x)
        IN  /\ b \in FreeBlocksOf(pre)
            /\ Trace[i].ret = IF before = NULL THEN b ELSE before
            /\ ~get_alloc(post, Trace[i].ret)
            /\ get_size(post, Trace[i].ret)
                   = merged(before) + get_size(pre, b) + merged(after)
            /\ FreeBlocksOf(post)
                   = (FreeBlocksOf(pre) \ {b, before, after}) \cup {Trace[i].ret}

(* C27: after coalesce_block, in each of its four cases, the resulting    *)
(* block is linked exactly once, at the head of the bucket of its final   *)
(* size, and no block it absorbed is reachable from a bucket; a block     *)
(* between two allocated neighbours keeps its address and its size.       *)
C27_CoalescedLinkedOnce ==
    \A i \in Ran("coalesce_block") :
        LET pre == Trace[i].pre
            post == Trace[i].post
            b == Trace[i].block
            r == Trace[i].ret
            before == FreeBefore(pre, b)
            after == FreeAfter(pre, b)
            class == find_seg_list_class(get_size(post, r))
        IN  /\ post.seg[class] = r
            /\ \A c \in Classes :
                   Cardinality({k \in DOMAIN BucketOf(post, c) : BucketOf(post, c)[k] = r})
                       = IF c = class THEN 1 ELSE 0
            /\ \A x \in ({b, after} \ {NULL, r}) : x \notin LinkedIn(post)
            /\ (before = NULL /\ after = NULL)
                   => (r = b /\ get_size(post, r) = get_size(pre, b))

(* C28: a successful extend_heap(size) writes, at the old epilogue's      *)
(* address, a free block of round_up(size, 16) bytes that carries the old *)
(* epilogue's previous-allocated and previous-is-minimum bits, writes a   *)
(* new epilogue in the last 8 bytes of the heap, and returns the block    *)
(* merged with the free block that ended the heap, if there was one; the  *)
(* block returned is free, linked in a bucket and at least size bytes.    *)
C28_ExtendHeapFormsFreeBlock ==
    \A j \in Ran("extend_heap") :
        Trace[j].ret # NULL =>
            LET LastWord(v) == mem_start_brk + v.brk - 8   \* the last 8 bytes of the heap
                pre == Trace[j].pre
                post == Trace[j].post
                size == Trace[j].size
                new == Trace[j].block
                ret == Trace[j].ret
                mid == Trace[j - 1].pre       \* the heap handed to coalesce_block
                trail == FreeBefore(pre, LastWord(pre))
            IN  /\ new = LastWord(pre)
                /\ Trace[j - 1].op = "coalesce_block" /\ Trace[j - 1].block = new
                /\ get_size(mid, new) = round_up(size, 16) /\ ~get_alloc(mid, new)
                /\ get_pre_alloc(mid, new) = get_pre_alloc(pre, new)
                /\ get_pre_min(mid, new) = get_pre_min(pre, new)
                /\ post.brk = pre.brk + round_up(size, 16)
                /\ get_size(post, LastWord(post)) = 0 /\ get_alloc(post, LastWord(post))
                /\ ret = IF trail = NULL THEN new ELSE trail
                /\ get_size(post, ret)
                       = (IF trail = NULL THEN 0 ELSE get_size(pre, trail)) + round_up(size, 16)
                /\ ~get_alloc(post, ret)
                /\ ret \in LinkedIn(post)
                /\ UGe(get_size(post, ret), size)

(* C29: fix_free_list on a block b that is linked in bucket k leaves      *)
(* bucket k holding the blocks it held, b taken out and the others in     *)
(* the order they had, wherever b stood (head, middle, tail) and for      *)
(* 16-byte blocks as for larger ones; every other bucket holds what it    *)
(* held.                                                                  *)
C29_RemoveKeepsOrder ==
    \A i \in Ran("fix_free_list") :
        LET pre == Trace[i].pre
            post == Trace[i].post
            b == Trace[i].block
        IN  \A k \in Classes :
                (\E j \in DOMAIN BucketOf(pre, k) : BucketOf(pre, k)[j] = b) =>
                    /\ BucketOf(post, k) = SelectSeq(BucketOf(pre, k), LAMBDA x : x # b)
                    /\ \A c \in Classes \ {k} : BucketOf(post, c) = BucketOf(pre, c)

(* The bucket heads an inner operation changed. *)
HeadsChanged(e) == {c \in Classes : e.post.seg[c] # e.pre.seg[c]}

(* The heap words an inner operation changed are link fields of at most n *)
(* blocks among S: next, and prev when the list is not the list of        *)
(* 16-byte blocks; the break and heap_start stay.                         *)
Relinks(e, n, S) ==
    LET changed == {a \in DOMAIN e.pre.mem \cup DOMAIN e.post.mem :
                        Rd(e.post, a) # Rd(e.pre, a)}
        fields(X) == UNION {IF e.size = min_block_size THEN {x + 8} ELSE {x + 8, x + 16} :
                                x \in X}
    IN  /\ e.post.brk = e.pre.brk /\ e.post.hs = e.pre.hs
        /\ \E X \in SUBSET S : Cardinality(X) <= n /\ changed \subseteq fields(X)

(* C30, as stated: each insert_block_LIFO and each fix_free_list changes  *)
(* no bucket head but that of the block's size class and the link fields  *)
(* of at most two blocks (the block, blocks linked in a bucket), and      *)
(* nothing else.                                                          *)
C30_ListFrameAsStated ==
    \A i \in Ran("insert_block_LIFO") \cup Ran("fix_free_list") :
        /\ HeadsChanged(Trace[i]) \subseteq {find_seg_list_class(Trace[i].size)}
        /\ Relinks(Trace[i], 2, LinkedIn(Trace[i].pre) \cup {Trace[i].block})

(* C30: each insert_block_LIFO sets the head of the bucket of the block's *)
(* size class and changes the link fields of at most two blocks (the      *)
(* block, the former head); each fix_free_list changes no bucket head but *)
(* that one, and it only when no linked block has the block as its next,  *)
(* and the link fields of at most three blocks (the block, its list       *)
(* predecessor, its list successor); nothing else changes.                *)
C30_ListFrame ==
    \A i \in Ran("insert_block_LIFO") \cup Ran("fix_free_list") :
        LET e == Trace[i]
            class == find_seg_list_class(e.size)
            before == {p \in LinkedIn(e.pre) : next_of(e.pre, p) = e.block}
        IN  /\ HeadsChanged(e) \subseteq {class}
            /\ IF e.op = "insert_block_LIFO"
               THEN /\ e.post.seg[class] = e.block
                    /\ Relinks(e, 2, {e.block, e.pre.seg[class]})
               ELSE /\ HeadsChanged(e) # {} => before = {}
                    /\ Relinks(e, 3, {e.block, next_of(e.pre, e.block)} \cup before)

(* fix_free_list took a block larger than 16 bytes from between two       *)
(* blocks of its bucket and rewrote link fields in all three.             *)
C30_Witness ==
    \E i \in Ran("fix_free_list") :
        /\ Trace[i].size # min_block_size
        /\ HeadsChanged(Trace[i]) = {}
        /\ ~Relinks(Trace[i], 2, LinkedIn(Trace[i].pre) \cup {Trace[i].block})
        /\ Relinks(Trace[i], 3, LinkedIn(Trace[i].pre) \cup {Trace[i].block})

(* C31: insert_block_LIFO(b) leaves the bucket of b's size class holding  *)
(* b at the head, followed by what the bucket held, in the order it had,  *)
(* and every other bucket as it was; for a 16-byte block the only heap    *)
(* word written is its forward link.                                      *)
C31_InsertAtHead ==
    \A i \in Ran("insert_block_LIFO") :
        LET e == Trace[i]
            class == find_seg_list_class(e.size)
            changed == {a \in DOMAIN e.pre.mem \cup DOMAIN e.post.mem :
                            Rd(e.post, a) # Rd(e.pre, a)}
        IN  /\ BucketOf(e.post, class) = <<e.block>> \o BucketOf(e.pre, class)
            /\ \A c \in Classes \ {class} : BucketOf(e.post, c) = BucketOf(e.pre, c)
            /\ e.size = min_block_size => changed \subseteq {e.block + 8}

(* C32: find_seg_list_class(size) returns 0 for size <= 16, k for         *)
(* 16 * 2^(k-1) < size <= 16 * 2^k with 1 <= k <= 12, and 13 for every    *)
(* size above 16 * 2^12; the result is in 0 .. 13 and no smaller than the *)
(* result for any smaller size.                                           *)
C32_ClassBoundaries ==
    last.op = "class" =>
        LET size == last.size
            expected == IF ULe(size, 16) THEN 0
                        ELSE IF UGt(size, 16 * 2 ^ 12) THEN 13
                        ELSE CHOOSE k \in 1 .. 12 :
                                 UGt(size, 16 * 2 ^ (k - 1)) /\ ULe(size, 16 * 2 ^ k)
        IN  /\ last.class = expected
            /\ last.class \in 0 .. 13
            /\ \A smaller \in {x \in ClassSizes : x >= 0 /\ ULe(x, size)} :
                   find_seg_list_class(smaller) <= last.class

(* C33: a malloc, free, calloc or realloc call leaves every word of the   *)
(* payload of each block the caller holds before and after the call, and  *)
(* that is neither the call's operand nor its result, as it was.          *)
C33_LivePayloadsUntouched ==
    [][(last'.op \in {"malloc", "free", "calloc", "realloc"} /\ status' = "ok")
         => \A h \in BagToSet(live) \cap BagToSet(live') :
                (h.ptr # last'.ptr /\ h.ptr # last'.ret) =>
                    \A k \in 0 .. (get_payload_size(Cur, payload_to_header(h.ptr)) \div 8) - 1 :
                        Rd(Post, h.ptr + 8 * k) = Rd(Cur, h.ptr + 8 * k)]_vars

(* C34: the block of every pointer a successful malloc(n) returns has     *)
(* size exactly round_up(n + 8, 16), a size that holds the n bytes and    *)
(* the header: a block is never handed out with slack left unsplit.       *)
C34_ExactBlockSize ==
    (last.op = "malloc" /\ last.ret # NULL /\ status = "ok") =>
        LET size == get_size(Cur, payload_to_header(last.ret))
        IN  /\ size = round_up(last.n + wsize, dsize)
            /\ UGt(size, last.n)

(* C35: between calls every bucket's chain ends at NULL without meeting a *)
(* block twice, and in every bucket of blocks above 16 bytes the head's   *)
(* backward link is NULL and the backward link of each block's successor  *)
(* is the block, so that a scan along a chain comes to its end.           *)
C35_ChainsWellFormed ==
    status = "ok" =>
        \A c \in Classes :
            /\ chain_end(Cur, seg_list[c], {}) = NULL
            /\ c >= 1 =>
                   /\ seg_list[c] # NULL => prev_of(Cur, seg_list[c]) = NULL
                   /\ \A i \in DOMAIN BucketOf(Cur, c) :
                          LET x == BucketOf(Cur, c)[i]
                          IN  next_of(Cur, x) # NULL => prev_of(Cur, next_of(Cur, x)) = x

C37_MaskRestored ==
    sh.pc = "prompt" => (sh.mask = sh.entry /\ sh.mask \cap maskSelected = {})

(* C38: SIGCHLD is blocked while the parent stands between fork and        *)
(* add_job; sigchld_handler never reaps a child that is not in the job     *)
(* list; and every child a run of sigchld_handler reaps is, when the       *)
(* handler returns, out of the job list or marked stopped.                 *)
C38_NoDeleteBeforeAdd ==
    [][/\ sh'.pc = "forked" => "SIGCHLD" \in sh'.mask
       /\ ~sh'.orphan
       /\ \A p \in DOMAIN sh.procs :
              (/\ sh.procs[p] \in {"exited", "killed", "stopped_new"}
               /\ p \notin DOMAIN sh'.procs \/ sh'.procs[p] = "stopped")
              => LET jobID == job_from_pid(sh'.jobs, p)
                 IN  IF sh.procs[p] = "stopped_new"
                     THEN jobID # 0 /\ sh'.jobs[jobID].state = "ST"
                     ELSE jobID = 0]_vars

(* A child ended or stopped between fork and add_job, and sigchld_handler *)
(* has reaped it since.                                                   *)
C38_Witness ==
    /\ sh.raced \cap sh.reaped # {}
    /\ ~sh.orphan

(* C39: eval is never back at the prompt while a job is in state FG, and   *)
(* once the process of the foreground job that eval waits for has exited,  *)
(* been killed or been stopped, eval eventually returns to the prompt.     *)
C39_ForegroundWait ==
    /\ [](sh.pc = "prompt" => fg_job(sh.jobs) = 0)
    /\ (/\ sh.pc \in {"wait", "suspended"}
        /\ fg_job(sh.jobs) # 0
        /\ LET pid == sh.jobs[fg_job(sh.jobs)].pid
           IN  pid \in DOMAIN sh.procs => sh.procs[pid] # "running")
       ~> (sh.pc = "prompt")

(* C40: after every access, a line was evicted (a valid line lost its tag, *)
(* evictions grew by one) only if the addressed set had no invalid line,   *)
(* and the line evicted is the valid line of the set touched longest ago;  *)
(* hits and misses together grew by one, by two for an 'M', of which at    *)
(* most one is a miss; no set holds two valid lines of one tag; and        *)
(* dirty_evictions grew by the block size if the evicted line was dirty,   *)
(* by nothing otherwise.                                                   *)
C40_AccessData ==
    csim.acc.operation # "none" =>
        LET a == csim.acc
            lines == 0 .. csim.E - 1
            before == a.c[a.set_index]
            after == csim.c[a.set_index]
            evicted == {i \in lines : before[i].valid = 1 /\ after[i].tag # before[i].tag}
            extra == IF a.operation = "M" THEN 1 ELSE 0
        IN  /\ csim.stats.evictions - a.stats.evictions = Cardinality(evicted)
            /\ \A i \in evicted :
                   /\ \A k \in lines : before[k].valid = 1
                   /\ \A k \in lines \ {i} : a.at[a.set_index][i] < a.at[a.set_index][k]
                   /\ evicted = {i}
            /\ csim.stats.misses - a.stats.misses \in {0, 1}
            /\ (csim.stats.hits - a.stats.hits) + (csim.stats.misses - a.stats.misses) = 1 + extra
            /\ \A set \in DOMAIN csim.c : \A i, k \in lines :
                   (csim.c[set][i].valid = 1 /\ csim.c[set][k].valid = 1 /\ i # k)
                   => csim.c[set][i].tag # csim.c[set][k].tag
            /\ csim.stats.dirty_evictions - a.stats.dirty_evictions =
                   IF \E i \in evicted : before[i].dirty = 1 THEN 2 ^ csim.b ELSE 0
            /\ \A set \in DOMAIN csim.c \ {a.set_index} : csim.c[set] = a.c[set]

(* The access evicted the second line of a full set of two, which was      *)
(* dirty and was filled after the first line but touched before it.        *)
C40_Witness ==
    /\ csim.acc.operation # "none" /\ csim.E = 2
    /\ csim.stats.evictions = csim.acc.stats.evictions + 1
    /\ csim.acc.line = 1
    /\ csim.acc.c[csim.acc.set_index][1].dirty = 1
    /\ csim.stats.dirty_evictions = csim.acc.stats.dirty_evictions + 4

====
